---- MODULE Spec2Model ----
(***************************************************************************)
(* Read-through keyword cache of the DataForSEO MCP server:                *)
(*   - CacheService (core/cache/cache-service.ts) over the D1 tables       *)
(*     keywords, keyword_rankings, domains, search_logs;                   *)
(*   - the cache middleware (core/cache/cache-middleware.ts): the bulk     *)
(*     search-volume handler and the fetch-then-store handler of the       *)
(*     other tools.                                                        *)
(* Every await of a handler is a step of its own: other invocations, the   *)
(* clock and other writers may act between two steps.  Time is counted in  *)
(* days.  A JavaScript object is a record holding only the properties that *)
(* are present (an absent property is undefined/null), and a table row     *)
(* holds only its non-NULL columns.                                        *)
(*                                                                         *)
(* Spec:        one invocation of a wrapped handler (either path) while    *)
(*              the clock and another tool act;                            *)
(* SpecTwice:   a search-volume request and then the same request again;   *)
(* SpecService: the reading and clearing calls made on CacheService;       *)
(* SpecWrites:  the writing methods of CacheService, a batch going to the  *)
(*              store chunk by chunk, with clearCache in between;          *)
(* SpecBulk:    one batch of up to MaxBulk items, each chunk stored or     *)
(*              rejected;                                                  *)
(* SpecPaged:   the LIMIT of the three paged reads over up to MaxRows      *)
(*              matching rows;                                             *)
(* SpecTools:   the handlers of cache_search, cache_stats and cache_export *)
(*              (core/modules/cache/cache.module.ts);                      *)
(* SpecLookup:  upsertKeyword and getCachedKeywords under three            *)
(*              location/language pairs;                                   *)
(* SpecRace:    two search-volume invocations whose steps interleave;      *)
(* SpecSearch:  searchKeywords with every sort and filter parameter;       *)
(* SpecTexts:   search-volume requests served from records whose monthly   *)
(*              series is stored as any text;                              *)
(* SpecJoin:    searchRankings after the keyword records were cleared;     *)
(* SpecRound:   a keyword item written by one tool and then served by the  *)
(*              search-volume handler;                                     *)
(* SpecClear:   clearCache with and without a table name and filters;      *)
(* SpecMerge:   search-volume requests that name a keyword more than once; *)
(* SpecLive:    two invocations under weak fairness of every awaited call; *)
(* SpecWorker:  the worker (worker/index-worker.ts): fetch answering a     *)
(*              request, init registering the tools.                       *)
(***************************************************************************)
EXTENDS Integers, Sequences, FiniteSets, TLC

\* ------------------------------------------------------------------ bounds
MaxKeywords == 3      \* longest keyword list of a request
MaxItems == 2         \* most items in one upstream response
MaxNow == 30          \* the clock stops here
MaxOtherWrites == 1   \* writes of other tools between the steps of a handler

\* ------------------------------------------------------- program constants
TTL_KEYWORD_DATA == 30
TTL_RANKINGS == 7
TTL_DOMAIN_OVERVIEW == 7
CHUNK_SIZE == 50
SUCCESS_STATUS == 20000

SEARCH_VOLUME_TOOL == "kw_data_google_ads_search_volume"
KEYWORD_SUGGESTIONS_TOOL == "dataforseo_labs_google_keyword_suggestions"
RANKED_KEYWORDS_TOOL == "dataforseo_labs_google_ranked_keywords"
DOMAIN_RANK_TOOL == "dataforseo_labs_google_domain_rank_overview"
SERP_TOOL == "serp_organic_live_advanced"

\* ------------------------------------------------------------ input domains
Procs == {1, 2}
KW == {"a", "b", "c"}
ReqLocations == {"US"}
ReqLanguages == {"en"}
\* the (location, language) pairs other tools write under: the requested pair
\* and one differing from it in each component
OtherLocales == {<<"US", "en">>, <<"FI", "en">>, <<"US", "fi">>}
\* some upstream status other than success
ERROR_STATUS == SUCCESS_STATUS + 20501

SeqsUpTo(S, n) == UNION {[1..k -> S] : k \in 0..n}
Range(s) == {s[i] : i \in DOMAIN s}
Min(a, b) == IF a < b THEN a ELSE b
Has(r, f) == f \in DOMAIN r

RECURSIVE SelectSeqBy(_, _)
\* Array.prototype.filter with the predicate given as the set of kept values
SelectSeqBy(s, keep) ==
  IF s = <<>> THEN <<>>
  ELSE IF Head(s) \in keep THEN <<Head(s)>> \o SelectSeqBy(Tail(s), keep)
       ELSE SelectSeqBy(Tail(s), keep)

\* ----------------------------------------------- JSON of the monthly series
\* A JavaScript monthly value is a list of integers or a year-month map (its
\* members in insertion order, each <<key, value>>, the key a sequence of
\* character codes).  A JSON text is an array text, an object text or invalid.
List(s) == [t |-> "list", v |-> s]
Map(m) == [t |-> "map", v |-> m]
\* a JavaScript string that holds the text raw
Text(raw) == [t |-> "text", v |-> raw]
JSONStringify(val) ==
  IF val.t = "list" THEN [json |-> "array", elems |-> val.v]
  ELSE [json |-> "object", members |-> val.v]

RECURSIVE LexLess(_, _)
\* string a sorts before string b (code unit order)
LexLess(a, b) ==
  IF b = <<>> THEN FALSE
  ELSE IF a = <<>> THEN TRUE
  ELSE IF Head(a) # Head(b) THEN Head(a) < Head(b)
  ELSE LexLess(Tail(a), Tail(b))

RECURSIVE SortReverse(_)
\* keys.sort().reverse(): the keys in descending order
SortReverse(keys) ==
  IF keys = {} THEN <<>>
  ELSE LET top == CHOOSE k \in keys : \A o \in keys \ {k} : LexLess(o, k)
       IN <<top>> \o SortReverse(keys \ {top})

MemberValue(members, k) ==
  LET i == CHOOSE j \in DOMAIN members : members[j][1] = k IN members[i][2]

\* parseCachedMonthly: the stored text as a list, newest first; <<>> stands for
\* the null it returns (an empty list never comes back as a list)
parseCachedMonthly(row) ==
  IF ~Has(row, "monthly_searches") THEN <<>>
  ELSE LET raw == row.monthly_searches IN
    IF raw.json = "array" THEN raw.elems
    ELSE IF raw.json = "object" THEN
      LET keys == SortReverse({raw.members[j][1] : j \in DOMAIN raw.members})
      IN [i \in DOMAIN keys |-> MemberValue(raw.members, keys[i])]
    ELSE <<>>

\* ------------------------------------------------------------- CacheService
\* mutant: the record expires the moment it is stored
expiresAt_NoTTL(ttlDays, t) == t

\* expiresAt: ttlDays days from t
expiresAt(ttlDays, t) == t + ttlDays

\* mutant: only `kw` names the keyword
ItemKeyword_KwOnly(item) == IF Has(item, "kw") THEN item.kw ELSE ""

\* item.kw || item.keyword ("" when neither is a non-empty string)
ItemKeyword(item) ==
  IF Has(item, "kw") /\ item.kw # "" THEN item.kw
  ELSE IF Has(item, "keyword") /\ item.keyword # "" THEN item.keyword
  ELSE ""

\* The values upsertKeywordBatch binds for one item; the expiry is computed
\* when the statement is prepared (at time t), not when it is executed.
KeywordStatement(item, location, language, source, t) ==
  [keyword |-> ItemKeyword(item), location |-> location, language |-> language,
   search_volume |-> IF Has(item, "vol") THEN item.vol
                     ELSE IF Has(item, "search_volume") THEN item.search_volume
                     ELSE 0,
   source |-> source, expires_at |-> expiresAt(TTL_KEYWORD_DATA, t)]
  @@ (IF Has(item, "cpc") THEN "cpc" :> item.cpc ELSE <<>>)
  @@ (IF Has(item, "comp") THEN "competition" :> item.comp
      ELSE IF Has(item, "competition") THEN "competition" :> item.competition
      ELSE <<>>)
  @@ (IF Has(item, "intent") THEN "intent" :> item.intent ELSE <<>>)
  @@ (IF Has(item, "kd") THEN "keyword_difficulty" :> item.kd
      ELSE IF Has(item, "keyword_difficulty")
        THEN "keyword_difficulty" :> item.keyword_difficulty
      ELSE <<>>)
  @@ (IF Has(item, "monthly")
      THEN "monthly_searches" :> JSONStringify(item.monthly) ELSE <<>>)

\* items.map(...).filter(Boolean): items without a keyword give no statement
KeywordStatements(items, location, language, source, t) ==
  LET keyed == SelectSeq(items, LAMBDA item : ItemKeyword(item) # "")
  IN [i \in DOMAIN keyed |->
        KeywordStatement(keyed[i], location, language, source, t)]

\* mutant: all statements go to the store in one call
Chunks_Whole(statements) ==
  IF statements = <<>> THEN <<>> ELSE <<statements>>

\* the slices statements.slice(i, i + CHUNK_SIZE) of the chunk loop, for
\* i = 0, CHUNK_SIZE, ... below statements.length, in order
Chunks(statements) ==
  LET starts == {i \in 0..(Len(statements) - 1) : i % CHUNK_SIZE = 0}
  IN [c \in 1..Cardinality(starts) |->
        SubSeq(statements, (c - 1) * CHUNK_SIZE + 1,
               Min(c * CHUNK_SIZE, Len(statements)))]

\* The values upsertKeyword binds (lines 113-141): data.x ?? default for each
\* column, the monthly series as JSON when there is one, a string as it is
UpsertKeywordStatement(keyword, location, language, data, source, t) ==
  [keyword |-> keyword, location |-> location, language |-> language,
   search_volume |-> IF Has(data, "search_volume") THEN data.search_volume
                     ELSE 0,
   source |-> source, expires_at |-> expiresAt(TTL_KEYWORD_DATA, t)]
  @@ (IF Has(data, "cpc") THEN "cpc" :> data.cpc ELSE <<>>)
  @@ (IF Has(data, "competition") THEN "competition" :> data.competition
      ELSE <<>>)
  @@ (IF Has(data, "intent") THEN "intent" :> data.intent ELSE <<>>)
  @@ (IF Has(data, "keyword_difficulty")
      THEN "keyword_difficulty" :> data.keyword_difficulty ELSE <<>>)
  @@ (IF Has(data, "monthly_searches")
      THEN "monthly_searches" :>
             (IF data.monthly_searches.t = "text" THEN data.monthly_searches.v
              ELSE JSONStringify(data.monthly_searches))
      ELSE <<>>)

SameKeywordKey(r, s) ==
  r.keyword = s.keyword /\ r.location = s.location /\ r.language = s.language

\* mutant: on a conflict only the columns the new statement has a value for
\* are overwritten; the others keep the value of the older write
ExecKeywordUpsert_KeepsOld(rows, stmt, t) ==
  {r \in rows : ~SameKeywordKey(r, stmt)}
  \cup {(stmt @@ ("fetched_at" :> t)) @@ r : r \in {o \in rows : SameKeywordKey(o, stmt)}}
  \cup {stmt @@ ("fetched_at" :> t) : x \in {1} \ {1 : o \in {o \in rows : SameKeywordKey(o, stmt)}}}

\* INSERT ... ON CONFLICT(keyword, location, language) DO UPDATE executed at
\* time t: every non-key column is overwritten, fetched_at = datetime('now')
ExecKeywordUpsert(rows, stmt, t) ==
  {r \in rows : ~SameKeywordKey(r, stmt)} \cup {stmt @@ ("fetched_at" :> t)}

RECURSIVE ExecKeywordBatch_FirstWins(_, _, _)
\* mutant: INSERT OR IGNORE, a row already under the key is kept
ExecKeywordBatch_FirstWins(rows, chunk, t) ==
  IF chunk = <<>> THEN rows
  ELSE ExecKeywordBatch_FirstWins(
         IF \E r \in rows : SameKeywordKey(r, Head(chunk)) THEN rows
         ELSE rows \cup {Head(chunk) @@ ("fetched_at" :> t)},
         Tail(chunk), t)

RECURSIVE ExecKeywordBatch(_, _, _)
\* db.batch(chunk): the statements of one chunk, in order, as one transaction
ExecKeywordBatch(rows, chunk, t) ==
  IF chunk = <<>> THEN rows
  ELSE ExecKeywordBatch(ExecKeywordUpsert(rows, Head(chunk), t), Tail(chunk), t)

\* The values upsertRankingBatch binds for one item
RankingStatement(item, domain, location, language, t) ==
  [keyword |-> ItemKeyword(item), domain |-> domain,
   serp_type |-> IF Has(item, "type") THEN item.type
                 ELSE IF Has(item, "serp_type") THEN item.serp_type
                 ELSE "organic",
   location |-> location, language |-> language,
   expires_at |-> expiresAt(TTL_RANKINGS, t)]
  @@ (IF Has(item, "pos") THEN "position" :> item.pos
      ELSE IF Has(item, "position") THEN "position" :> item.position
      ELSE <<>>)
  @@ (IF Has(item, "url") THEN "url" :> item.url ELSE <<>>)
  @@ (IF Has(item, "etv") THEN "etv" :> item.etv ELSE <<>>)

RankingStatements(items, domain, location, language, t) ==
  LET keyed == SelectSeq(items, LAMBDA item : ItemKeyword(item) # "")
  IN [i \in DOMAIN keyed |->
        RankingStatement(keyed[i], domain, location, language, t)]

SameRankingKey(r, s) ==
  /\ r.keyword = s.keyword /\ r.domain = s.domain
  /\ r.location = s.location /\ r.language = s.language

RECURSIVE ExecRankingBatch(_, _, _)
\* one chunk of INSERT ... ON CONFLICT(keyword, domain, location, language)
ExecRankingBatch(rows, chunk, t) ==
  IF chunk = <<>> THEN rows
  ELSE ExecRankingBatch(
         {r \in rows : ~SameRankingKey(r, Head(chunk))}
           \cup {Head(chunk) @@ ("fetched_at" :> t)},
         Tail(chunk), t)

\* The values upsertDomain binds
DomainStatement(domain, location, language, data, t) ==
  LET organic == IF Has(data, "organic") THEN data.organic ELSE <<>>
      paid == IF Has(data, "paid") THEN data.paid ELSE <<>>
  IN [domain |-> domain, location |-> location, language |-> language,
      expires_at |-> expiresAt(TTL_DOMAIN_OVERVIEW, t)]
     @@ (IF Has(organic, "count") THEN "organic_keywords" :> organic.count
         ELSE <<>>)
     @@ (IF Has(organic, "etv") THEN "organic_etv" :> organic.etv ELSE <<>>)
     @@ (IF Has(paid, "count") THEN "paid_keywords" :> paid.count ELSE <<>>)
     @@ (IF Has(paid, "etv") THEN "paid_etv" :> paid.etv ELSE <<>>)
     @@ (IF Has(data, "backlinks") THEN "backlinks" :> data.backlinks ELSE <<>>)
     @@ (IF Has(data, "ref_domains")
           THEN "referring_domains" :> data.ref_domains
         ELSE IF Has(data, "referring_domains")
           THEN "referring_domains" :> data.referring_domains
         ELSE <<>>)
     @@ (IF Has(data, "rank") THEN "domain_rank" :> data.rank
         ELSE IF Has(data, "domain_rank") THEN "domain_rank" :> data.domain_rank
         ELSE <<>>)

\* INSERT ... ON CONFLICT(domain, location, language) DO UPDATE
ExecDomainUpsert(rows, stmt, t) ==
  {r \in rows : ~(/\ r.domain = stmt.domain /\ r.location = stmt.location
                  /\ r.language = stmt.language)}
  \cup {stmt @@ ("fetched_at" :> t)}

\* mutant: a record is still live at the moment it expires
IsLive_Inclusive(r, t) == r.expires_at >= t

\* expires_at > datetime('now')
IsLive(r, t) == r.expires_at > t

\* mutant: the lookup does not look at the location
GetCachedKeywords_AnyLocation(rows, t, kws, location, language) ==
  LET found == {r \in rows : /\ r.keyword \in Range(kws)
                             /\ r.language = language
                             /\ IsLive(r, t)}
  IN [k \in {r.keyword : r \in found} |->
        CHOOSE r \in found : r.keyword = k]

\* mutant: the lookup finds only what the search-volume tool itself stored
GetCachedKeywords_OwnSource(rows, t, kws, location, language) ==
  LET found == {r \in rows : /\ \E i \in DOMAIN kws : kws[i] = r.keyword
                             /\ r.location = location
                             /\ r.language = language
                             /\ IsLive(r, t)
                             /\ r.source = "google_ads"}
  IN [kw \in {r.keyword : r \in found} |->
        CHOOSE r \in found : r.keyword = kw]

\* getCachedKeywords: the live rows of the requested keywords at
\* (location, language), as a map keyword -> row
GetCachedKeywords(rows, t, kws, location, language) ==
  LET found == {r \in rows : /\ r.keyword \in Range(kws)
                             /\ r.location = location
                             /\ r.language = language
                             /\ IsLive(r, t)}
  IN [k \in {r.keyword : r \in found} |->
        CHOOSE r \in found : r.keyword = k]

\* logSearch: the row appended to search_logs
LogEntry(toolName, queryParams, resultCount, cacheHit, t) ==
  [tool_name |-> toolName, query_params |-> queryParams,
   result_count |-> resultCount, cache_hit |-> IF cacheHit THEN 1 ELSE 0,
   created_at |-> t]

\* --------------------------------------------------------------- middleware
\* An MCP tool result: one text content whose text is the JSON of an envelope.
TextResult(envelope) == [content |-> <<[type |-> "text", text |-> envelope]>>]

\* extractParsedItems: data.items || [] of the parsed text, [] when there is
\* no text or it does not parse
extractParsedItems(result) ==
  IF ~Has(result, "content") \/ result.content = <<>> THEN <<>>
  ELSE LET text == result.content[1].text
       IN IF Has(text, "items") THEN text.items ELSE <<>>

ParamKeywords(p) == IF Has(p, "keywords") THEN p.keywords ELSE <<>>
ParamLocation(p) == IF Has(p, "location_name") THEN p.location_name ELSE ""
ParamLanguage(p) == IF Has(p, "language_code") THEN p.language_code ELSE ""

\* mutant: the filter keeps the cached keywords instead of the missing ones
Missing_Inverted(kws, cached) == SelectSeqBy(kws, DOMAIN cached)

\* mutant: the list is not narrowed at all
Missing_NotNarrowed(kws, cached) ==
  IF Range(kws) \subseteq DOMAIN cached THEN <<>> ELSE kws

\* keywords.filter(kw => !cachedMap.has(kw))
Missing(kws, cached) == SelectSeqBy(kws, Range(kws) \ DOMAIN cached)

\* mutant: the decoded series is put on the item whatever it is
CachedItem_AlwaysMonthly(c) ==
  [kw |-> c.keyword, vol |-> c.search_volume,
   monthly |-> List(parseCachedMonthly(c))]
  @@ (IF Has(c, "cpc") THEN "cpc" :> c.cpc ELSE <<>>)
  @@ (IF Has(c, "competition") /\ c.competition # ""
      THEN "comp" :> c.competition ELSE <<>>)

\* a cached row in the compact wire format
CachedItem(c) ==
  [kw |-> c.keyword, vol |-> c.search_volume]
  @@ (IF Has(c, "cpc") THEN "cpc" :> c.cpc ELSE <<>>)
  @@ (IF Has(c, "competition") /\ c.competition # ""
      THEN "comp" :> c.competition ELSE <<>>)
  @@ (IF parseCachedMonthly(c) # <<>>
      THEN "monthly" :> List(parseCachedMonthly(c)) ELSE <<>>)

Placeholder(kw) == [kw |-> kw, vol |-> 0]

\* the full-hit item list
CachedItems(kws, cached) ==
  [i \in DOMAIN kws |->
     IF kws[i] \in DOMAIN cached THEN CachedItem(cached[kws[i]])
     ELSE Placeholder(kws[i])]

\* new Map(fetchedItems.map(item => [item.kw, item])).get(kw): the last item
\* carrying the keyword
FetchedHas(fetched, kw) ==
  \E i \in DOMAIN fetched : Has(fetched[i], "kw") /\ fetched[i].kw = kw
FetchedGet(fetched, kw) ==
  LET at == {i \in DOMAIN fetched : Has(fetched[i], "kw") /\ fetched[i].kw = kw}
  IN fetched[CHOOSE i \in at : \A j \in at : j <= i]

\* mutant: the fetched items come first, in upstream order, the cached after
MergedItems_UpstreamOrder(kws, cached, fetched) ==
  fetched \o CachedItems(SelectSeqBy(kws, DOMAIN cached), cached)

\* mutant: a cached record wins over a freshly fetched item
MergedItems_PreferCached(kws, cached, fetched) ==
  [i \in DOMAIN kws |->
     IF kws[i] \in DOMAIN cached THEN CachedItem(cached[kws[i]])
     ELSE IF FetchedHas(fetched, kws[i]) THEN FetchedGet(fetched, kws[i])
     ELSE Placeholder(kws[i])]

\* mutant: the merge runs over the distinct keywords that were found
MergedItems_FoundOnly(kws, cached, fetched) ==
  LET Found(kw) == FetchedHas(fetched, kw) \/ kw \in DOMAIN cached
      found == SelectSeq(kws, Found)
  IN [i \in DOMAIN found |->
        IF FetchedHas(fetched, found[i]) THEN FetchedGet(fetched, found[i])
        ELSE CachedItem(cached[found[i]])]

\* the partial-hit merge
MergedItems(kws, cached, fetched) ==
  [i \in DOMAIN kws |->
     IF FetchedHas(fetched, kws[i]) THEN FetchedGet(fetched, kws[i])
     ELSE IF kws[i] \in DOMAIN cached THEN CachedItem(cached[kws[i]])
     ELSE Placeholder(kws[i])]

Synthesized(items) ==
  TextResult([status |-> SUCCESS_STATUS, count |-> Len(items), items |-> items])

\* ------------------------------------------------------------------- inputs
Key202501 == <<2, 0, 2, 5, 0, 1>>
Key202502 == <<2, 0, 2, 5, 0, 2>>

\* what upstream knows of a keyword, as the search-volume parser shapes it:
\* a full item with a list series, a zero-volume item, an item whose series
\* is still a year-month map
SearchVolumeItem(kw) ==
  IF kw = "a" THEN [kw |-> kw, vol |-> 100, cpc |-> 2, comp |-> "HIGH",
                    monthly |-> List(<<30, 20>>)]
  ELSE IF kw = "b" THEN [kw |-> kw, vol |-> 0]
  ELSE [kw |-> kw, vol |-> 50, cpc |-> 0,
        monthly |-> Map(<<<<Key202501, 10>>, <<Key202502, 20>>>>)]

\* what another keyword tool (suggestions, ideas, related) caches of a keyword
SuggestionItem(kw) ==
  [kw |-> kw, vol |-> 7, cpc |-> 1, comp |-> "LOW", intent |-> "commercial",
   kd |-> 40]

\* keyword lists: every list shorter than MaxKeywords, duplicates included,
\* and the lists of MaxKeywords distinct keywords
KeywordLists ==
  SeqsUpTo(KW, MaxKeywords - 1)
  \cup {ks \in [1..MaxKeywords -> KW] :
          \A i, j \in 1..MaxKeywords : ks[i] = ks[j] => i = j}

SearchVolumeParams ==
  {[keywords |-> ks, location_name |-> l, language_code |-> g] :
     ks \in KeywordLists, l \in ReqLocations, g \in ReqLanguages}
  \cup {[location_name |-> l, language_code |-> g] :
     l \in ReqLocations, g \in ReqLanguages}

\* the results upstream can give: a success envelope of items, an error
\* envelope, a text that is no JSON
UpstreamResults ==
  {TextResult([status |-> SUCCESS_STATUS, count |-> Len(ks),
               items |-> [i \in DOMAIN ks |-> SearchVolumeItem(ks[i])]]) :
     ks \in SeqsUpTo(KW, MaxItems)}
  \cup {TextResult([status_code |-> ERROR_STATUS, status_message |-> "error"]),
        TextResult([raw |-> "Error: upstream"])}

\* what the ranked-keywords tool returns of a keyword
RankedItem(kw) ==
  IF kw = "a" THEN [kw |-> kw, vol |-> 9, pos |-> 3, type |-> "paid",
                    url |-> "https://x.com/a", etv |-> 1]
  ELSE IF kw = "b" THEN [kw |-> kw, vol |-> 0]
  ELSE [vol |-> 4, pos |-> 1]

\* what the domain-rank-overview tool returns; the index is only a name
DomainItem(kw) ==
  IF kw = "a" THEN [target |-> "x.com", organic |-> [count |-> 5, etv |-> 2],
                    paid |-> [count |-> 0, etv |-> 0]]
  ELSE IF kw = "b" THEN [paid |-> [count |-> 1, etv |-> 1]]
  ELSE [target |-> "y.com", paid |-> [count |-> 0, etv |-> 0]]

SerpItem(kw) == [pos |-> 1, url |-> "https://x.com/a", title |-> kw]

\* the tools of the general path: one of each caching kind and one that is
\* not cached
GeneralTools ==
  {KEYWORD_SUGGESTIONS_TOOL, RANKED_KEYWORDS_TOOL, DOMAIN_RANK_TOOL, SERP_TOOL}

ToolItem(toolName, kw) ==
  IF toolName = KEYWORD_SUGGESTIONS_TOOL THEN SuggestionItem(kw)
  ELSE IF toolName = RANKED_KEYWORDS_TOOL THEN RankedItem(kw)
  ELSE IF toolName = DOMAIN_RANK_TOOL THEN DomainItem(kw)
  ELSE SerpItem(kw)

GeneralParams ==
  {[location_name |-> l, language_code |-> g] :
     l \in ReqLocations, g \in ReqLanguages}
  \cup {[location_name |-> l, language_code |-> g, target |-> "x.com"] :
     l \in ReqLocations, g \in ReqLanguages}

ErrorResults ==
  {TextResult([status_code |-> ERROR_STATUS, status_message |-> "error"]),
   TextResult([raw |-> "Error: upstream"])}

\* the results upstream can give to a tool
ToolResults(toolName) ==
  {TextResult([status |-> SUCCESS_STATUS, count |-> Len(ks),
               items |-> [i \in DOMAIN ks |-> ToolItem(toolName, ks[i])]]) :
     ks \in SeqsUpTo(KW, MaxItems)}
  \cup ErrorResults

NoParams == [none |-> TRUE]
NoResult == [none |-> TRUE]
NoMap == <<>>
NoStamp == <<>>
NoAnswer == [op |-> ""]
NoStats == <<>>
NoBatch == [state |-> "idle", calls |-> 0]

\* -------------------------------------------------------------------- state
VARIABLES
  keywords,          \* table keywords: a set of rows
  keyword_rankings,  \* table keyword_rankings
  domains,           \* table domains
  search_logs,       \* table search_logs, in insertion order
  now,               \* the clock, in days
  otherWrites,       \* writes of other tools so far
  pc,                \* per invocation: where the handler stands
  tool,              \* per invocation: the tool name
  params,            \* per invocation: the params it was called with
  cachedMap,         \* per invocation: the lookup result
  upstreamCalls,     \* per invocation: the params passed to originalHandler
  result,            \* per invocation: what originalHandler returned
  queue,             \* per invocation: the store calls still to be made
  response,          \* per invocation: what the caller received
  lookupFailed,      \* per invocation: getCachedKeywords threw
  storeFailed,       \* per invocation: a cache write threw
  logFailed,         \* per invocation: logSearch threw
  logged,            \* per invocation: the log rows it appended
  liveAtLookup,      \* per invocation: the live records of the request
                     \* that the table held when the lookup ran
  stages,            \* per invocation: the steps of cacheResult still to come
  wrote,             \* per invocation: the tables it wrote rows to
  stamp,             \* per invocation: the time it was called ("called"), of
                     \* its lookup ("looked"), and the time originalHandler
                     \* returned ("fetched")
  answer,            \* what the CacheService call that has just run returned
  statsTodo,         \* getStats: the statements still to run, in order
  stats,             \* getStats: the results of the statements run so far
  batch              \* the write call under way on CacheService: its prepared
                     \* statements, the store calls issued and still to come

tables == <<keywords, keyword_rankings, domains, search_logs>>
locals == <<pc, tool, params, cachedMap, upstreamCalls, result, queue, response,
            lookupFailed, storeFailed, logFailed, logged, liveAtLookup, stages,
            wrote, stamp>>
service == <<answer, statsTodo, stats, batch>>
vars == <<keywords, keyword_rankings, domains, search_logs, now, otherWrites,
          pc, tool, params, cachedMap, upstreamCalls, result, queue, response,
          lookupFailed, storeFailed, logFailed, logged, liveAtLookup, stages,
          wrote, stamp, answer, statsTodo, stats, batch>>

Init ==
  /\ keywords = {}
  /\ keyword_rankings = {}
  /\ domains = {}
  /\ search_logs = <<>>
  /\ now = 0
  /\ otherWrites = 0
  /\ pc = [p \in Procs |-> "idle"]
  /\ tool = [p \in Procs |-> ""]
  /\ params = [p \in Procs |-> NoParams]
  /\ cachedMap = [p \in Procs |-> NoMap]
  /\ upstreamCalls = [p \in Procs |-> <<>>]
  /\ result = [p \in Procs |-> NoResult]
  /\ queue = [p \in Procs |-> <<>>]
  /\ response = [p \in Procs |-> NoResult]
  /\ lookupFailed = [p \in Procs |-> FALSE]
  /\ storeFailed = [p \in Procs |-> FALSE]
  /\ logFailed = [p \in Procs |-> FALSE]
  /\ logged = [p \in Procs |-> <<>>]
  /\ liveAtLookup = [p \in Procs |-> {}]
  /\ stages = [p \in Procs |-> <<>>]
  /\ wrote = [p \in Procs |-> {}]
  /\ stamp = [p \in Procs |-> NoStamp]
  /\ answer = NoAnswer
  /\ statsTodo = <<>>
  /\ stats = NoStats
  /\ batch = NoBatch

\* ------------------------------------------------------ clock, other writers
Terminal == {"done", "failed"}

\* d days pass
Tick(d) ==
  /\ now + d <= MaxNow
  /\ now' = now + d
  /\ UNCHANGED <<tables, otherWrites, locals, service>>

\* another keyword tool stores one item (one chunk of its upsertKeywordBatch)
OtherToolWrite(kws) ==
  /\ otherWrites < MaxOtherWrites
  /\ \E kw \in kws, lg \in OtherLocales :
       keywords' = ExecKeywordBatch(keywords,
         KeywordStatements(<<SuggestionItem(kw)>>, lg[1], lg[2],
                           "keyword_suggestions", now),
         now)
  /\ otherWrites' = otherWrites + 1
  /\ UNCHANGED <<keyword_rankings, domains, search_logs, now, locals, service>>

\* ------------------------------------------------- the search-volume handler
\* mutant: an empty keyword list goes through the cache like any other
SVCall_NoBypass(p, ps) ==
  /\ pc[p] = "idle"
  /\ tool' = [tool EXCEPT ![p] = SEARCH_VOLUME_TOOL]
  /\ params' = [params EXCEPT ![p] = ps]
  /\ pc' = [pc EXCEPT ![p] = "lookup"]
  /\ stamp' = [stamp EXCEPT ![p] = "called" :> now]
  /\ UNCHANGED <<tables, now, otherWrites, stages, wrote, cachedMap, result,
                 queue, response, lookupFailed, storeFailed, logFailed, logged,
                 liveAtLookup, upstreamCalls, service>>

\* lines 98-105: the call; an empty list goes straight to originalHandler
SVCall(p, ps) ==
  /\ pc[p] = "idle"
  /\ tool' = [tool EXCEPT ![p] = SEARCH_VOLUME_TOOL]
  /\ params' = [params EXCEPT ![p] = ps]
  /\ IF ParamKeywords(ps) = <<>>
     THEN /\ pc' = [pc EXCEPT ![p] = "bypass"]
          /\ upstreamCalls' = [upstreamCalls EXCEPT ![p] = <<ps>>]
     ELSE /\ pc' = [pc EXCEPT ![p] = "lookup"]
          /\ UNCHANGED upstreamCalls
  /\ stamp' = [stamp EXCEPT ![p] = "called" :> now]
  /\ UNCHANGED <<tables, now, otherWrites, stages, wrote, cachedMap, result,
                 queue, response, lookupFailed, storeFailed, logFailed, logged,
                 liveAtLookup, service>>

\* the records of table keywords that are live now and carry a requested
\* keyword under the request's location and language
LiveRecords(ps) ==
  {r \in keywords : /\ \E i \in DOMAIN ParamKeywords(ps) :
                          ParamKeywords(ps)[i] = r.keyword
                     /\ r.location = ParamLocation(ps)
                     /\ r.language = ParamLanguage(ps)
                     /\ now < r.expires_at}

\* lines 116-146 after the lookup gave `cached`: a full hit builds the response
\* and goes to log it, anything else calls originalHandler with the missing
AfterLookup(p, cached) ==
  LET kws == ParamKeywords(params[p])
      missing == Missing(kws, cached)
  IN /\ cachedMap' = [cachedMap EXCEPT ![p] = cached]
     /\ stamp' = [stamp EXCEPT ![p] = ("looked" :> now) @@ @]
     /\ liveAtLookup' = [liveAtLookup EXCEPT ![p] = LiveRecords(params[p])]
     /\ IF missing = <<>>
        THEN /\ pc' = [pc EXCEPT ![p] = "log_hit"]
             /\ response' = [response EXCEPT ![p] =
                  Synthesized(CachedItems(kws, cached))]
             /\ UNCHANGED upstreamCalls
        ELSE /\ pc' = [pc EXCEPT ![p] = "upstream"]
             /\ upstreamCalls' = [upstreamCalls EXCEPT ![p] =
                  Append(@, [params[p] EXCEPT !.keywords = missing])]
             /\ UNCHANGED response

\* mutant: a lookup renews the expiry of the records it finds
SVLookup_Touches(p) ==
  /\ pc[p] = "lookup"
  /\ AfterLookup(p, GetCachedKeywords(keywords, now, ParamKeywords(params[p]),
                     ParamLocation(params[p]), ParamLanguage(params[p])))
  /\ keywords' = {IF r \in LiveRecords(params[p])
                  THEN [r EXCEPT !.expires_at = expiresAt(TTL_KEYWORD_DATA, now)]
                  ELSE r : r \in keywords}
  /\ UNCHANGED <<keyword_rankings, domains, search_logs, now, otherWrites,
                 stages, wrote, tool, params, result, queue, lookupFailed,
                 storeFailed, logFailed, logged, service>>

\* lines 108-110: the lookup answers
SVLookup(p) ==
  /\ pc[p] = "lookup"
  /\ AfterLookup(p, GetCachedKeywords(keywords, now, ParamKeywords(params[p]),
                     ParamLocation(params[p]), ParamLanguage(params[p])))
  /\ UNCHANGED <<tables, now, otherWrites, stages, wrote, tool, params, result,
                 queue, lookupFailed, storeFailed, logFailed, logged, service>>

\* mutant: the lookup error is not caught
SVLookupFails_Propagates(p) ==
  /\ pc[p] = "lookup"
  /\ lookupFailed' = [lookupFailed EXCEPT ![p] = TRUE]
  /\ pc' = [pc EXCEPT ![p] = "failed"]
  /\ response' = [response EXCEPT ![p] = [error |-> "cache"]]
  /\ UNCHANGED <<tables, now, otherWrites, stages, wrote, tool, params,
                 cachedMap, upstreamCalls, result, queue, storeFailed,
                 logFailed, logged, liveAtLookup, stamp, service>>

\* lines 111-114: the lookup throws
SVLookupFails(p) ==
  /\ pc[p] = "lookup"
  /\ lookupFailed' = [lookupFailed EXCEPT ![p] = TRUE]
  /\ AfterLookup(p, NoMap)
  /\ UNCHANGED <<tables, now, otherWrites, stages, wrote, tool, params, result,
                 queue, storeFailed, logFailed, logged, service>>

\* mutant: the merge is done on a full miss too
SVEnterLog_AlwaysMerge(p, res) ==
  /\ pc' = [pc EXCEPT ![p] = "log_merge"]
  /\ response' = [response EXCEPT ![p] =
       Synthesized(MergedItems(ParamKeywords(params[p]), cachedMap[p],
                               extractParsedItems(res)))]

\* mutant: the response is returned as soon as the store step is over, the
\* log call left to run behind it
SVEnterLog_ReturnsFirst(p, res) ==
  /\ pc' = [pc EXCEPT ![p] = "done"]
  /\ response' = [response EXCEPT ![p] =
       IF DOMAIN cachedMap[p] # {}
       THEN Synthesized(MergedItems(ParamKeywords(params[p]), cachedMap[p],
                                    extractParsedItems(res)))
       ELSE res]

\* lines 159-193 once the store step is over: merge when the lookup found
\* something, else hand the upstream result on; then the log call is made
SVEnterLog(p, res) ==
  IF DOMAIN cachedMap[p] # {}
  THEN /\ pc' = [pc EXCEPT ![p] = "log_merge"]
       /\ response' = [response EXCEPT ![p] =
            Synthesized(MergedItems(ParamKeywords(params[p]), cachedMap[p],
                                    extractParsedItems(res)))]
  ELSE /\ pc' = [pc EXCEPT ![p] = "log_miss"]
       /\ response' = [response EXCEPT ![p] = res]

\* lines 146-153: originalHandler returns; the statements of the batch are
\* prepared at once (their expiry computed now) and the first chunk is sent
SVUpstreamReturns(p, res) ==
  /\ pc[p] = "upstream"
  /\ result' = [result EXCEPT ![p] = res]
  /\ stamp' = [stamp EXCEPT ![p] = ("fetched" :> now) @@ @]
  /\ LET stmts == KeywordStatements(extractParsedItems(res),
                    ParamLocation(params[p]), ParamLanguage(params[p]),
                    "google_ads", now)
     IN IF stmts # <<>>
        THEN /\ queue' = [queue EXCEPT ![p] = Chunks(stmts)]
             /\ pc' = [pc EXCEPT ![p] = "store"]
             /\ UNCHANGED response
        ELSE /\ UNCHANGED queue
             /\ SVEnterLog(p, res)
  /\ UNCHANGED <<tables, now, otherWrites, stages, wrote, tool, params,
                 cachedMap, upstreamCalls, lookupFailed, storeFailed,
                 logFailed, logged, liveAtLookup, service>>

\* line 104: the bypass returns whatever originalHandler returns
SVBypassReturns(p, res) ==
  /\ pc[p] = "bypass"
  /\ result' = [result EXCEPT ![p] = res]
  /\ stamp' = [stamp EXCEPT ![p] = ("fetched" :> now) @@ @]
  /\ response' = [response EXCEPT ![p] = res]
  /\ pc' = [pc EXCEPT ![p] = "done"]
  /\ UNCHANGED <<tables, now, otherWrites, stages, wrote, tool, params,
                 cachedMap, upstreamCalls, queue, lookupFailed, storeFailed,
                 logFailed, logged, liveAtLookup, service>>

\* lines 104, 146: originalHandler throws, and so does the wrapped handler
UpstreamThrows(p) ==
  /\ pc[p] \in {"upstream", "bypass", "g_upstream"}
  /\ pc' = [pc EXCEPT ![p] = "failed"]
  /\ response' = [response EXCEPT ![p] = [error |-> "upstream"]]
  /\ UNCHANGED <<tables, now, otherWrites, stages, wrote, tool, params,
                 cachedMap, upstreamCalls, result, queue, lookupFailed,
                 storeFailed, logFailed, logged, liveAtLookup, stamp, service>>

\* cache-service.ts line 192: the store executes the next chunk
SVStoreChunk(p) ==
  /\ pc[p] = "store"
  /\ keywords' = ExecKeywordBatch(keywords, Head(queue[p]), now)
  /\ wrote' = [wrote EXCEPT ![p] = @ \cup {"keywords"}]
  /\ queue' = [queue EXCEPT ![p] = Tail(@)]
  /\ IF Tail(queue[p]) = <<>> THEN SVEnterLog(p, result[p])
     ELSE UNCHANGED <<pc, response>>
  /\ UNCHANGED <<keyword_rankings, domains, search_logs, now, otherWrites,
                 stages, tool, params, cachedMap, upstreamCalls, result,
                 lookupFailed, storeFailed, logFailed, logged, liveAtLookup,
                 stamp, service>>

\* mutant: a chunk that throws is sent again
SVStoreChunkFails_Retries(p) ==
  /\ pc[p] = "store"
  /\ storeFailed' = [storeFailed EXCEPT ![p] = TRUE]
  /\ UNCHANGED <<pc, response, queue>>
  /\ UNCHANGED <<tables, now, otherWrites, stages, wrote, tool, params,
                 cachedMap, upstreamCalls, result, lookupFailed, logFailed,
                 logged, liveAtLookup, stamp, service>>

\* lines 154-156: a chunk throws; the loop is left and the error swallowed
SVStoreChunkFails(p) ==
  /\ pc[p] = "store"
  /\ storeFailed' = [storeFailed EXCEPT ![p] = TRUE]
  /\ queue' = [queue EXCEPT ![p] = <<>>]
  /\ SVEnterLog(p, result[p])
  /\ UNCHANGED <<tables, now, otherWrites, stages, wrote, tool, params,
                 cachedMap, upstreamCalls, result, lookupFailed, logFailed,
                 logged, liveAtLookup, stamp, service>>

\* mutant: a partial hit is logged as a hit
SVLogRow_HitWhenCached(p) ==
  LogEntry(SEARCH_VOLUME_TOOL, params[p],
           IF pc[p] = "log_miss" THEN Len(extractParsedItems(result[p]))
           ELSE Len(extractParsedItems(response[p])),
           pc[p] \in {"log_hit", "log_merge"}, now)

\* the row of the logSearch call of lines 133, 176, 190
SVLogRow(p) ==
  LogEntry(SEARCH_VOLUME_TOOL, params[p],
           IF pc[p] = "log_miss" THEN Len(extractParsedItems(result[p]))
           ELSE Len(extractParsedItems(response[p])),
           pc[p] = "log_hit", now)

\* lines 133, 176, 190: the log row is appended, the response returned
SVLog(p) ==
  /\ pc[p] \in {"log_hit", "log_merge", "log_miss"}
  /\ search_logs' = Append(search_logs, SVLogRow(p))
  /\ logged' = [logged EXCEPT ![p] = Append(@, SVLogRow(p))]
  /\ pc' = [pc EXCEPT ![p] = "done"]
  /\ UNCHANGED <<keywords, keyword_rankings, domains, now, otherWrites, stages,
                 wrote, tool, params, cachedMap, upstreamCalls, result, queue,
                 response, lookupFailed, storeFailed, logFailed, liveAtLookup,
                 stamp, service>>

\* mutant: a rejected log append is awaited for ever
SVLogFails_Hangs(p) ==
  /\ pc[p] \in {"log_hit", "log_merge", "log_miss"}
  /\ logFailed' = [logFailed EXCEPT ![p] = TRUE]
  /\ pc' = [pc EXCEPT ![p] = "hung"]
  /\ UNCHANGED <<tables, now, otherWrites, stages, wrote, tool, params,
                 cachedMap, upstreamCalls, result, queue, response,
                 lookupFailed, storeFailed, logged, liveAtLookup, stamp,
                 service>>

\* lines 134, 177, 191: logSearch throws; the response is returned all the same
SVLogFails(p) ==
  /\ pc[p] \in {"log_hit", "log_merge", "log_miss"}
  /\ logFailed' = [logFailed EXCEPT ![p] = TRUE]
  /\ pc' = [pc EXCEPT ![p] = "done"]
  /\ UNCHANGED <<tables, now, otherWrites, stages, wrote, tool, params,
                 cachedMap, upstreamCalls, result, queue, response,
                 lookupFailed, storeFailed, logged, liveAtLookup, stamp,
                 service>>

\* ------------------------------------------- the handler of the other tools
KEYWORD_CACHE_TOOLS ==
  {SEARCH_VOLUME_TOOL, KEYWORD_SUGGESTIONS_TOOL,
   "dataforseo_labs_google_keyword_ideas",
   "dataforseo_labs_google_related_keywords"}
RANKING_CACHE_TOOLS == {RANKED_KEYWORDS_TOOL}
DOMAIN_CACHE_TOOLS == {DOMAIN_RANK_TOOL}

\* TOOL_SOURCE_MAP[toolName] || toolName
ToolSource(toolName) ==
  IF toolName = SEARCH_VOLUME_TOOL THEN "google_ads"
  ELSE IF toolName = KEYWORD_SUGGESTIONS_TOOL THEN "keyword_suggestions"
  ELSE IF toolName = "dataforseo_labs_google_keyword_ideas" THEN "keyword_ideas"
  ELSE IF toolName = "dataforseo_labs_google_related_keywords"
    THEN "related_keywords"
  ELSE toolName

ParamTarget(ps) == IF Has(ps, "target") THEN ps.target ELSE ""

\* mutant: cacheResult does not return early on a result without items
CacheStages_NoEmptyCheck(toolName, items) ==
  (IF toolName \in KEYWORD_CACHE_TOOLS
   THEN <<[step |-> "keywords", source |-> ToolSource(toolName)],
          [step |-> "log"]>>
   ELSE <<>>)
  \o (IF toolName \in RANKING_CACHE_TOOLS
      THEN <<[step |-> "keywords", source |-> "ranked_keywords"],
             [step |-> "rankings"], [step |-> "log"]>>
      ELSE <<>>)
  \o (IF toolName \in DOMAIN_CACHE_TOOLS
      THEN [i \in DOMAIN items |-> [step |-> "domain", item |-> items[i]]]
           \o <<[step |-> "log"]>>
      ELSE <<>>)

\* cacheResult, lines 206-238: the steps it takes for a tool and its items, in
\* order; each step prepares its store calls when it is reached
CacheStages(toolName, items) ==
  IF items = <<>> THEN <<>>
  ELSE
    (IF toolName \in KEYWORD_CACHE_TOOLS
     THEN <<[step |-> "keywords", source |-> ToolSource(toolName)],
            [step |-> "log"]>>
     ELSE <<>>)
    \o (IF toolName \in RANKING_CACHE_TOOLS
        THEN <<[step |-> "keywords", source |-> "ranked_keywords"],
               [step |-> "rankings"], [step |-> "log"]>>
        ELSE <<>>)
    \o (IF toolName \in DOMAIN_CACHE_TOOLS
        THEN [i \in DOMAIN items |-> [step |-> "domain", item |-> items[i]]]
             \o <<[step |-> "log"]>>
        ELSE <<>>)

\* the store calls of one step, prepared at time t
StageCalls(stage, toolName, ps, items, t) ==
  IF stage.step = "keywords" THEN
    LET chunks == Chunks(KeywordStatements(items, ParamLocation(ps),
                           ParamLanguage(ps), stage.source, t))
    IN [i \in DOMAIN chunks |-> [table |-> "keywords", stmts |-> chunks[i]]]
  ELSE IF stage.step = "rankings" THEN
    LET chunks == Chunks(RankingStatements(items, ParamTarget(ps),
                           ParamLocation(ps), ParamLanguage(ps), t))
    IN [i \in DOMAIN chunks |->
          [table |-> "keyword_rankings", stmts |-> chunks[i]]]
  ELSE IF stage.step = "domain" THEN
    LET target == IF Has(stage.item, "target") /\ stage.item.target # ""
                  THEN stage.item.target ELSE ParamTarget(ps)
    IN IF target = "" THEN <<>>
       ELSE <<[table |-> "domains",
               stmts |-> <<DomainStatement(target, ParamLocation(ps),
                             ParamLanguage(ps), stage.item, t)>>]>>
  ELSE <<[table |-> "search_logs",
          row |-> [tool_name |-> toolName, query_params |-> ps,
                   result_count |-> Len(items), cache_hit |-> 0]]>>

RECURSIVE NextCalls(_, _, _, _, _)
\* from the steps still to come, the first that has store calls to make:
\* those calls and the steps after it
NextCalls(stgs, toolName, ps, items, t) ==
  IF stgs = <<>> THEN [stages |-> <<>>, queue |-> <<>>]
  ELSE LET calls == StageCalls(Head(stgs), toolName, ps, items, t)
       IN IF calls # <<>> THEN [stages |-> Tail(stgs), queue |-> calls]
          ELSE NextCalls(Tail(stgs), toolName, ps, items, t)

\* lines 72-73: the call goes straight to originalHandler
GCall(p, toolName, ps) ==
  /\ pc[p] = "idle"
  /\ tool' = [tool EXCEPT ![p] = toolName]
  /\ params' = [params EXCEPT ![p] = ps]
  /\ upstreamCalls' = [upstreamCalls EXCEPT ![p] = <<ps>>]
  /\ pc' = [pc EXCEPT ![p] = "g_upstream"]
  /\ stamp' = [stamp EXCEPT ![p] = "called" :> now]
  /\ UNCHANGED <<tables, now, otherWrites, stages, wrote, cachedMap, result,
                 queue, response, lookupFailed, storeFailed, logFailed, logged,
                 liveAtLookup, service>>

\* cacheResult goes on with the steps stgs: the next store call is made, or
\* cacheResult is over and the upstream result is returned (line 82)
GContinue(p, res, stgs) ==
  LET n == NextCalls(stgs, tool[p], params[p], extractParsedItems(res), now)
  IN /\ stages' = [stages EXCEPT ![p] = n.stages]
     /\ queue' = [queue EXCEPT ![p] = n.queue]
     /\ IF n.queue = <<>>
        THEN /\ pc' = [pc EXCEPT ![p] = "done"]
             /\ response' = [response EXCEPT ![p] = res]
        ELSE /\ pc' = [pc EXCEPT ![p] = "g_store"]
             /\ UNCHANGED response

\* lines 73-77: originalHandler returns and cacheResult starts
GUpstreamReturns(p, res) ==
  /\ pc[p] = "g_upstream"
  /\ result' = [result EXCEPT ![p] = res]
  /\ stamp' = [stamp EXCEPT ![p] = ("fetched" :> now) @@ @]
  /\ GContinue(p, res, CacheStages(tool[p], extractParsedItems(res)))
  /\ UNCHANGED <<tables, now, otherWrites, wrote, tool, params, cachedMap,
                 upstreamCalls, lookupFailed, storeFailed, logFailed, logged,
                 liveAtLookup, service>>

\* the store executes the call at the head of the queue
GStoreCall(p) ==
  /\ pc[p] = "g_store"
  /\ LET call == Head(queue[p]) IN
       /\ keywords' = IF call.table = "keywords"
                      THEN ExecKeywordBatch(keywords, call.stmts, now)
                      ELSE keywords
       /\ keyword_rankings' = IF call.table = "keyword_rankings"
                              THEN ExecRankingBatch(keyword_rankings,
                                                    call.stmts, now)
                              ELSE keyword_rankings
       /\ domains' = IF call.table = "domains"
                     THEN ExecDomainUpsert(domains, call.stmts[1], now)
                     ELSE domains
       /\ search_logs' = IF call.table = "search_logs"
                         THEN Append(search_logs,
                                     call.row @@ ("created_at" :> now))
                         ELSE search_logs
       /\ logged' = [logged EXCEPT ![p] =
            IF call.table = "search_logs"
            THEN Append(@, call.row @@ ("created_at" :> now)) ELSE @]
       /\ wrote' = [wrote EXCEPT ![p] =
            IF call.table = "search_logs" THEN @ ELSE @ \cup {call.table}]
  /\ IF Tail(queue[p]) # <<>>
     THEN /\ queue' = [queue EXCEPT ![p] = Tail(@)]
          /\ UNCHANGED <<stages, pc, response>>
     ELSE GContinue(p, result[p], stages[p])
  /\ UNCHANGED <<now, otherWrites, tool, params, cachedMap, upstreamCalls,
                 result, lookupFailed, storeFailed, logFailed, liveAtLookup,
                 stamp, service>>

\* mutant: the error of the store call is not caught
GStoreCallFails_Propagates(p) ==
  /\ pc[p] = "g_store"
  /\ storeFailed' = [storeFailed EXCEPT ![p] = TRUE]
  /\ queue' = [queue EXCEPT ![p] = <<>>]
  /\ stages' = [stages EXCEPT ![p] = <<>>]
  /\ pc' = [pc EXCEPT ![p] = "failed"]
  /\ response' = [response EXCEPT ![p] = [error |-> "cache"]]
  /\ UNCHANGED <<tables, now, otherWrites, wrote, tool, params, cachedMap,
                 upstreamCalls, result, lookupFailed, logFailed, logged,
                 liveAtLookup, stamp, service>>

\* mutant: the error of a store call is swallowed where it occurs and
\* cacheResult goes on with its next step
GStoreCallFails_GoesOn(p) ==
  /\ pc[p] = "g_store"
  /\ IF Head(queue[p]).table = "search_logs"
     THEN /\ logFailed' = [logFailed EXCEPT ![p] = TRUE]
          /\ UNCHANGED storeFailed
     ELSE /\ storeFailed' = [storeFailed EXCEPT ![p] = TRUE]
          /\ UNCHANGED logFailed
  /\ GContinue(p, result[p], stages[p])
  /\ UNCHANGED <<tables, now, otherWrites, wrote, tool, params, cachedMap,
                 upstreamCalls, result, lookupFailed, logged, liveAtLookup,
                 stamp, service>>

\* lines 78-82: a store call throws; cacheResult is abandoned, the error
\* swallowed and the upstream result returned
GStoreCallFails(p) ==
  /\ pc[p] = "g_store"
  /\ IF Head(queue[p]).table = "search_logs"
     THEN /\ logFailed' = [logFailed EXCEPT ![p] = TRUE]
          /\ UNCHANGED storeFailed
     ELSE /\ storeFailed' = [storeFailed EXCEPT ![p] = TRUE]
          /\ UNCHANGED logFailed
  /\ queue' = [queue EXCEPT ![p] = <<>>]
  /\ stages' = [stages EXCEPT ![p] = <<>>]
  /\ pc' = [pc EXCEPT ![p] = "done"]
  /\ response' = [response EXCEPT ![p] = result[p]]
  /\ UNCHANGED <<tables, now, otherWrites, wrote, tool, params, cachedMap,
                 upstreamCalls, result, lookupFailed, logged, liveAtLookup,
                 stamp, service>>

\* ------------------------------------------ CacheService: the read queries
\* JSON.parse of a stored monthly text; a text that does not parse is kept as
\* the string it is (the catch of lines 365-367 and 489-491)
JSONParse(text) ==
  IF text.json = "array" THEN List(text.elems)
  ELSE IF text.json = "object" THEN Map(text.members)
  ELSE IF text.json = "invalid" THEN Text(text)
  ELSE [t |-> text.json]

\* params.x as a SQL condition is applied only when x is truthy
Truthy(ps, f) == Has(ps, f) /\ ps[f] # ""

\* keyword LIKE '%pattern%'; the keywords and patterns of the model are single
\* letters, for which containing is being equal
Like(kw, pattern) == kw = pattern

\* column col of x sorts before that of y in ascending order; NULL sorts first
ColumnLess(x, y, col) ==
  IF ~Has(x, col) THEN Has(y, col) ELSE Has(y, col) /\ x[col] < y[col]

\* the orders in which ORDER BY col may deliver the rows S (rows that tie come
\* in any order)
Ordered(S, col, descending) ==
  {s \in [1..Cardinality(S) -> S] :
     /\ \A i, j \in DOMAIN s : i # j => s[i] # s[j]
     /\ \A i, j \in DOMAIN s : i < j =>
          IF descending THEN ~ColumnLess(s[i], s[j], col)
          ELSE ~ColumnLess(s[j], s[i], col)}

\* LIMIT n: a negative n does not limit
Limited(s, n) ==
  IF n < 0 \/ n >= Len(s) THEN s ELSE SubSeq(s, 1, n)

\* searchKeywords, lines 308-343: the WHERE clause
SearchMatches(r, t, ps) ==
  /\ IsLive(r, t)
  /\ Has(ps, "keywords") /\ ps.keywords # <<>> =>
       r.keyword \in Range(ps.keywords)
  /\ Truthy(ps, "keyword_like") => Like(r.keyword, ps.keyword_like)
  /\ Has(ps, "min_volume") => r.search_volume >= ps.min_volume
  /\ Has(ps, "max_volume") => r.search_volume <= ps.max_volume
  /\ Truthy(ps, "competition") =>
       Has(r, "competition") /\ r.competition = ps.competition
  /\ Truthy(ps, "intent") => Has(r, "intent") /\ r.intent = ps.intent
  /\ Truthy(ps, "location") => r.location = ps.location
  /\ Truthy(ps, "language") => r.language = ps.language

\* names that every object literal answers to besides its own keys: the
\* members it inherits from Object.prototype (some of them)
INHERITED == {"constructor", "toString", "valueOf", "hasOwnProperty"}

\* what an inherited member becomes in the text of the query: the source text
\* of a function, which names no column
NATIVE_CODE == "function () { [native code] }"

\* lines 345-350: {volume: ..., cpc: ..., difficulty: ..., fetched_at: ...}
\* [params.sort_by || 'volume'] || 'search_volume'.  The lookup in the object
\* literal finds its four keys and the inherited members; only a name that
\* finds nothing falls back to search_volume.
SortColumn(ps) ==
  LET by == IF Truthy(ps, "sort_by") THEN ps.sort_by ELSE "volume"
  IN IF by = "cpc" THEN "cpc"
     ELSE IF by = "difficulty" THEN "keyword_difficulty"
     ELSE IF by = "fetched_at" THEN "fetched_at"
     ELSE IF by \in INHERITED THEN NATIVE_CODE
     ELSE "search_volume"

\* the columns of table keywords a query can be ordered by
KEYWORD_COLUMNS ==
  {"keyword", "location", "language", "search_volume", "cpc", "competition",
   "intent", "keyword_difficulty", "monthly_searches", "source", "fetched_at",
   "expires_at"}

\* Math.min(params.limit || fallback, cap)
LimitOf(ps, fallback, cap) ==
  Min(IF Has(ps, "limit") /\ ps.limit # 0 THEN ps.limit ELSE fallback, cap)

\* lines 355-369: the selected columns of a row, monthly parsed
SearchRow(r) ==
  [kw |-> r.keyword, vol |-> r.search_volume, location |-> r.location,
   language |-> r.language]
  @@ (IF Has(r, "cpc") THEN "cpc" :> r.cpc ELSE <<>>)
  @@ (IF Has(r, "competition") THEN "comp" :> r.competition ELSE <<>>)
  @@ (IF Has(r, "intent") THEN "intent" :> r.intent ELSE <<>>)
  @@ (IF Has(r, "keyword_difficulty")
      THEN "kd" :> r.keyword_difficulty ELSE <<>>)
  @@ (IF Has(r, "monthly_searches")
      THEN "monthly" :> JSONParse(r.monthly_searches) ELSE <<>>)

\* searchKeywords: the results it may return
SearchKeywords(rows, t, ps) ==
  LET found == {r \in rows : SearchMatches(r, t, ps)}
      desc == ~(Has(ps, "sort_order") /\ ps.sort_order = "asc")
  IN {LET cut == Limited(s, LimitOf(ps, 50, 500))
      IN [i \in DOMAIN cut |-> SearchRow(cut[i])] :
        s \in Ordered(found, SortColumn(ps), desc)}

\* searchRankings, lines 378-388: the WHERE clause
RankingMatches(kr, t, ps) ==
  /\ IsLive(kr, t)
  /\ kr.domain = ps.domain
  /\ Truthy(ps, "location") => kr.location = ps.location
  /\ Truthy(ps, "language") => kr.language = ps.language

\* lines 393-395: the selected columns; keyword and volume come from the
\* keywords row joined on (keyword, location, language), if there is one
RankingRow(kr, kws) ==
  LET joined == {k \in kws : SameKeywordKey(k, kr)}
  IN (IF joined = {} THEN <<>>
      ELSE LET k == CHOOSE k \in joined : TRUE
           IN [kw |-> k.keyword, vol |-> k.search_volume])
     @@ (IF Has(kr, "position") THEN "pos" :> kr.position ELSE <<>>)
     @@ (IF Has(kr, "url") THEN "url" :> kr.url ELSE <<>>)

\* mutant: the join is an inner join, a ranking without its keyword row is
\* not selected
SearchRankings_InnerJoin(rks, kws, t, ps) ==
  LET found == {kr \in rks : /\ RankingMatches(kr, t, ps)
                             /\ \E k \in kws : SameKeywordKey(k, kr)}
  IN {LET cut == Limited(s, LimitOf(ps, 50, 500))
      IN [i \in DOMAIN cut |-> RankingRow(cut[i], kws)] :
        s \in Ordered(found, "position", FALSE)}

\* searchRankings: the results it may return
SearchRankings(rks, kws, t, ps) ==
  LET found == {kr \in rks : RankingMatches(kr, t, ps)}
  IN {LET cut == Limited(s, LimitOf(ps, 50, 500))
      IN [i \in DOMAIN cut |-> RankingRow(cut[i], kws)] :
        s \in Ordered(found, "position", FALSE)}

\* exportKeywords, lines 447-465: the WHERE clause
ExportMatches(r, t, ps) ==
  /\ IsLive(r, t)
  /\ Has(ps, "min_volume") => r.search_volume >= ps.min_volume
  /\ Truthy(ps, "location") => r.location = ps.location
  /\ Truthy(ps, "language") => r.language = ps.language
  /\ Truthy(ps, "keyword_like") => Like(r.keyword, ps.keyword_like)

\* a CSV cell: a number, a text, or nothing
Num(n) == [num |-> n]
Str(x) == [str |-> x]
Cell(r, col, isNum) ==
  IF ~Has(r, col) THEN Str("") ELSE IF isNum THEN Num(r[col]) ELSE Str(r[col])

\* lines 480-482: one CSV line, the keyword quoted
CsvLine(r) ==
  <<[quoted |-> r.keyword], Num(r.search_volume), Cell(r, "cpc", TRUE),
    Cell(r, "competition", FALSE), Cell(r, "intent", FALSE),
    Cell(r, "keyword_difficulty", TRUE), Str(r.location), Str(r.language),
    Num(r.fetched_at)>>

\* lines 487-492: a JSON row, monthly_searches parsed
ExportRow(r) ==
  [c \in DOMAIN r \ {"source", "expires_at"} |->
     IF c = "monthly_searches" THEN JSONParse(r[c]) ELSE r[c]]

\* exportKeywords: the results it may return
ExportKeywords(rows, t, ps) ==
  LET found == {r \in rows : ExportMatches(r, t, ps)}
  IN {LET cut == Limited(s, LimitOf(ps, 100, 1000))
      IN IF Has(ps, "format") /\ ps.format = "csv"
         THEN [csv |-> [i \in DOMAIN cut |-> CsvLine(cut[i])]]
         ELSE [json |-> [i \in DOMAIN cut |-> ExportRow(cut[i])]] :
        s \in Ordered(found, "search_volume", TRUE)}

\* ------------------------------------------------- CacheService: getStats
\* lines 408-419: the ten statements, in the order they are issued
StatsStatements ==
  <<"total", "withVolume", "expired", "locations", "languages", "oldest",
    "newest", "domainsCount", "rankingsCount", "topKeywords">>

TopKeywordRow(r) ==
  [kw |-> r.keyword, vol |-> r.search_volume, location |-> r.location,
   language |-> r.language]

FetchedTimes(rows) == {r.fetched_at : r \in rows}

\* what statement q may answer at time t, as the field it adds to the results
\* (none when MIN or MAX is NULL)
StatsOutcomes(q, t) ==
  IF q = "total" THEN {"total" :> Cardinality(keywords)}
  ELSE IF q = "withVolume"
    THEN {"withVolume" :> Cardinality({r \in keywords : r.search_volume > 0})}
  ELSE IF q = "expired"
    THEN {"expired" :> Cardinality({r \in keywords : r.expires_at <= t})}
  ELSE IF q = "locations" THEN {"locations" :> {r.location : r \in keywords}}
  ELSE IF q = "languages" THEN {"languages" :> {r.language : r \in keywords}}
  ELSE IF q = "oldest" THEN
    IF keywords = {} THEN {<<>>}
    ELSE {"oldest" :> CHOOSE d \in FetchedTimes(keywords) :
                        \A e \in FetchedTimes(keywords) : d <= e}
  ELSE IF q = "newest" THEN
    IF keywords = {} THEN {<<>>}
    ELSE {"newest" :> CHOOSE d \in FetchedTimes(keywords) :
                        \A e \in FetchedTimes(keywords) : e <= d}
  ELSE IF q = "domainsCount"
    THEN {"domainsCount" :> Cardinality({d.domain : d \in domains})}
  ELSE IF q = "rankingsCount"
    THEN {"rankingsCount" :> Cardinality(keyword_rankings)}
  ELSE {"topKeywords" :>
          LET cut == Limited(s, 10)
          IN [i \in DOMAIN cut |-> TopKeywordRow(cut[i])] :
        s \in Ordered({r \in keywords : IsLive(r, t)}, "search_volume", TRUE)}

\* lines 421-433: the object getStats returns
StatsResult(st) ==
  [total_keywords |-> st.total, with_volume |-> st.withVolume,
   without_volume |-> st.total - st.withVolume,
   locations |-> st.locations, languages |-> st.languages,
   expired_entries |-> st.expired, domains_tracked |-> st.domainsCount,
   rankings_stored |-> st.rankingsCount,
   top_keywords_by_volume |-> st.topKeywords]
  @@ (IF Has(st, "oldest") THEN "oldest_entry" :> st.oldest ELSE <<>>)
  @@ (IF Has(st, "newest") THEN "newest_entry" :> st.newest ELSE <<>>)

\* ----------------------------------------------- CacheService: clearCache
CLEARABLE == {"keywords", "keyword_rankings", "domains", "search_logs"}
\* mutant: an unknown table name falls back to the default table
ClearTable_Fallback(ps) ==
  IF Truthy(ps, "table") /\ ps.table \in CLEARABLE THEN ps.table
  ELSE "keywords"

\* params.table || 'keywords'
ClearTable(ps) == IF Truthy(ps, "table") THEN ps.table ELSE "keywords"

\* mutant: only live rows are deleted
ClearMatches_LiveOnly(r, ps) ==
  /\ r.expires_at > now
  /\ Truthy(ps, "location") => r.location = ps.location
  /\ Truthy(ps, "language") => r.language = ps.language
  /\ Truthy(ps, "keyword_like") /\ ClearTable(ps) # "domains" =>
       Like(r.keyword, ps.keyword_like)

\* mutant: the keyword substring is applied to every table
ClearMatches_KeywordAlways(r, ps) ==
  /\ Truthy(ps, "location") => r.location = ps.location
  /\ Truthy(ps, "language") => r.language = ps.language
  /\ Truthy(ps, "keyword_like") =>
       Has(r, "keyword") /\ Like(r.keyword, ps.keyword_like)

\* lines 515-526: the WHERE clause of the DELETE
ClearMatches(r, ps) ==
  /\ Truthy(ps, "location") => r.location = ps.location
  /\ Truthy(ps, "language") => r.language = ps.language
  /\ Truthy(ps, "keyword_like") /\ ClearTable(ps) # "domains" =>
       Like(r.keyword, ps.keyword_like)

\* ------------------------------------------- the calls made on CacheService
SvcKW == {"a", "b"}
SvcLocales == {<<"US", "en">>, <<"FI", "en">>}

LookupKeywords == SeqsUpTo(SvcKW, MaxItems)

SearchParams ==
  {[sort_by |-> "volume"], [keywords |-> <<"a">>], [keyword_like |-> "b"],
   [min_volume |-> 1], [max_volume |-> 50], [competition |-> "HIGH"],
   [intent |-> "commercial"], [location |-> "FI"], [language |-> "en"],
   [sort_by |-> "cpc", sort_order |-> "asc"], [sort_by |-> "fetched_at"],
   [sort_by |-> "difficulty", limit |-> 1]}

ExportParams ==
  {[format |-> "json"], [format |-> "csv"],
   [format |-> "json", min_volume |-> 1],
   [format |-> "csv", location |-> "US", limit |-> 1],
   [format |-> "json", keyword_like |-> "a", language |-> "en"]}

ClearParams ==
  {[table |-> "keywords"], [location |-> "FI"],
   [table |-> "keywords", keyword_like |-> "a", language |-> "en"],
   [table |-> "search_logs"], [table |-> "domains"],
   [table |-> "keyword_rankings"], [table |-> "statistics"],
   [table |-> "search_logs", location |-> "FI"],
   [table |-> "domains", keyword_like |-> "a", location |-> "US"],
   [table |-> "keyword_rankings", keyword_like |-> "a", language |-> "en"]}

\* no call is returning
Quiet == answer = NoAnswer

\* no call is returning and no getStats is under way
Free == Quiet /\ statsTodo = <<>>

\* a write or the passing of time may fall between the statements of a
\* getStats MaxOtherWrites times
MayWrite ==
  /\ Quiet
  /\ statsTodo # <<>> => otherWrites < MaxOtherWrites
  /\ otherWrites' = IF statsTodo # <<>> THEN otherWrites + 1 ELSE otherWrites

\* a TTL passes: what was stored before is expired, just
SvcTick ==
  /\ MayWrite
  /\ now + TTL_KEYWORD_DATA <= MaxNow
  /\ now' = now + TTL_KEYWORD_DATA
  /\ UNCHANGED <<tables, locals, service>>

\* upsertKeywordBatch of one upstream item
SvcUpsert(kw, lg) ==
  /\ MayWrite
  /\ keywords' = ExecKeywordBatch(keywords,
       KeywordStatements(<<SearchVolumeItem(kw)>>, lg[1], lg[2], "google_ads",
                         now),
       now)
  /\ UNCHANGED <<keyword_rankings, domains, search_logs, now, locals, service>>

\* upsertKeyword, lines 99-143: one statement, run at once
SvcUpsertKeyword(kw, lg, data, source) ==
  /\ MayWrite
  /\ keywords' = ExecKeywordUpsert(keywords,
       UpsertKeywordStatement(kw, lg[1], lg[2], data, source, now), now)
  /\ UNCHANGED <<keyword_rankings, domains, search_logs, now, locals, service>>

SvcGetCachedKeywords(kws, lg) ==
  /\ Free
  /\ answer' = [op |-> "getCachedKeywords",
                map |-> GetCachedKeywords(keywords, now, kws, lg[1], lg[2])]
  /\ UNCHANGED <<tables, now, otherWrites, locals, statsTodo, stats, batch>>

\* searchKeywords, lines 295-370; a query whose ORDER BY names no column is
\* rejected by the store, and the call throws
SvcSearchKeywords(ps) ==
  /\ Free
  /\ IF SortColumn(ps) \in KEYWORD_COLUMNS
     THEN \E rows \in SearchKeywords(keywords, now, ps) :
            answer' = [op |-> "searchKeywords", rows |-> rows]
     ELSE answer' = [op |-> "searchKeywords",
                     thrown |-> [error |-> "D1_ERROR"]]
  /\ UNCHANGED <<tables, now, otherWrites, locals, statsTodo, stats, batch>>

SvcExportKeywords(ps) ==
  /\ Free
  /\ \E out \in ExportKeywords(keywords, now, ps) :
       answer' = [op |-> "exportKeywords", out |-> out]
  /\ UNCHANGED <<tables, now, otherWrites, locals, statsTodo, stats, batch>>

\* getStats issues its statements
SvcGetStats ==
  /\ Free
  /\ statsTodo' = StatsStatements
  /\ stats' = NoStats
  /\ UNCHANGED <<tables, now, otherWrites, locals, answer, batch>>

\* the store runs the next statement of getStats; after the last, getStats
\* returns
SvcStatsStatement ==
  /\ Quiet /\ statsTodo # <<>>
  /\ \E got \in StatsOutcomes(Head(statsTodo), now) :
       IF Tail(statsTodo) # <<>>
       THEN stats' = got @@ stats /\ UNCHANGED answer
       ELSE /\ stats' = NoStats
            /\ answer' = [op |-> "getStats",
                          stats |-> StatsResult(got @@ stats)]
  /\ statsTodo' = Tail(statsTodo)
  /\ UNCHANGED <<tables, now, otherWrites, locals, batch>>

\* clearCache, lines 503-532
SvcClearCache(ps) ==
  /\ MayWrite
  /\ LET table == ClearTable(ps)
         Kept(rows) == {r \in rows : ~ClearMatches(r, ps)}
     IN IF table \notin CLEARABLE
        THEN /\ answer' = [op |-> "clearCache", error |-> "Invalid table"]
             /\ UNCHANGED tables
        ELSE IF table = "search_logs"
        THEN /\ search_logs' = <<>>
             /\ answer' = [op |-> "clearCache", deleted |-> Len(search_logs)]
             /\ UNCHANGED <<keywords, keyword_rankings, domains>>
        ELSE
          /\ keywords' = IF table = "keywords" THEN Kept(keywords)
                         ELSE keywords
          /\ keyword_rankings' = IF table = "keyword_rankings"
                                 THEN Kept(keyword_rankings)
                                 ELSE keyword_rankings
          /\ domains' = IF table = "domains" THEN Kept(domains) ELSE domains
          /\ answer' = [op |-> "clearCache",
               deleted |-> Cardinality(keywords \ keywords')
                           + Cardinality(keyword_rankings \ keyword_rankings')
                           + Cardinality(domains \ domains')]
          /\ UNCHANGED search_logs
  /\ UNCHANGED <<now, locals, statsTodo, stats, batch>>

\* the call returns to its caller
SvcReturn ==
  /\ ~Quiet
  /\ answer' = NoAnswer
  /\ UNCHANGED <<tables, now, otherWrites, locals, statsTodo, stats, batch>>

\* ------------------------------------------------------- the cache tools
\* what a failing store call makes the service throw: an Error with a
\* message, or a value that is no Error
Throwables == {[error |-> "D1_ERROR"], [value |-> "reset"]}

SERVICE_READS ==
  {"searchKeywords", "searchRankings", "getStats", "exportKeywords"}

\* the tool whose handler makes the service call
ToolOf(op) ==
  IF op \in {"searchKeywords", "searchRankings"} THEN "cache_search"
  ELSE IF op = "getStats" THEN "cache_stats"
  ELSE "cache_export"

\* upsertRankingBatch of one upstream item
SvcUpsertRanking(kw, domain, lg) ==
  /\ MayWrite
  /\ keyword_rankings' = ExecRankingBatch(keyword_rankings,
       RankingStatements(<<RankedItem(kw)>>, domain, lg[1], lg[2], now), now)
  /\ UNCHANGED <<keywords, domains, search_logs, now, locals, service>>

\* cache_search with a domain, lines 43-49: searchRankings is called
SvcSearchRankings(ps) ==
  /\ Free
  /\ \E rows \in SearchRankings(keyword_rankings, keywords, now, ps) :
       answer' = [op |-> "searchRankings", rows |-> rows]
  /\ UNCHANGED <<tables, now, otherWrites, locals, statsTodo, stats, batch>>

\* the statement of a read query is rejected by the store: the service throws
SvcReadThrows(op, e) ==
  /\ Free
  /\ answer' = [op |-> op, thrown |-> e]
  /\ UNCHANGED <<tables, now, otherWrites, locals, statsTodo, stats, batch>>

\* one of the statements of getStats is rejected: Promise.all rejects
SvcStatsStatementFails(e) ==
  /\ Quiet /\ statsTodo # <<>>
  /\ statsTodo' = <<>>
  /\ stats' = NoStats
  /\ answer' = [op |-> "getStats", thrown |-> e]
  /\ UNCHANGED <<tables, now, otherWrites, locals, batch>>

\* mutant: the handler has no catch
Caught_Rethrown(e) == [thrown |-> e]

\* the catch of a tool handler: `Error: ${error instanceof Error ?
\* error.message : 'Unknown error'}` as a text result
Caught(e) ==
  [content |-> <<[type |-> "text",
                  text |-> [begins |-> "Error:",
                            message |-> IF Has(e, "error") THEN e.error
                                        ELSE "Unknown error"]]>>]

\* what a tool handler makes of the value the service returned
Returned(a) ==
  [content |-> <<[type |-> "text",
                  text |->
                    IF a.op \in {"searchKeywords", "searchRankings"}
                      THEN [begins |-> "{",
                            json |-> [count |-> Len(a.rows), items |-> a.rows]]
                    ELSE IF a.op = "getStats"
                      THEN [begins |-> "{", json |-> a.stats]
                    ELSE IF Has(a.out, "csv")
                      THEN [begins |-> "keyword,", csv |-> a.out.csv]
                    ELSE [begins |-> "[", json |-> a.out.json]]>>]

\* the service call of a tool handler is over: the handler returns its text
ToolReturns ==
  /\ answer.op \in SERVICE_READS
  /\ answer' = [op |-> ToolOf(answer.op)]
                @@ (IF Has(answer, "thrown") THEN Caught(answer.thrown)
                    ELSE Returned(answer))
  /\ UNCHANGED <<tables, now, otherWrites, locals, statsTodo, stats, batch>>

\* the caller has the result of the tool
ToolDone ==
  /\ answer.op \in {"cache_search", "cache_stats", "cache_export"}
  /\ answer' = NoAnswer
  /\ UNCHANGED <<tables, now, otherWrites, locals, statsTodo, stats, batch>>

\* ----------------------------- CacheService: the write methods, step by step
MaxCalls == 2         \* write calls in one behaviour
MaxLogs == 1          \* rows of search_logs

\* items as the callers of upsertKeywordBatch may shape them: the keyword
\* under `keyword`, the long field names; no keyword at all; both names empty
AltItem == [keyword |-> "b", search_volume |-> 5, competition |-> "LOW"]
Unkeyed == [vol |-> 3, cpc |-> 1]
EmptyKeyed == [kw |-> "", keyword |-> "", vol |-> 1]

KeywordBatches ==
  {<<>>, <<SearchVolumeItem("a")>>, <<SuggestionItem("a")>>,
   <<SearchVolumeItem("a"), SuggestionItem("a")>>, <<Unkeyed, AltItem>>,
   <<AltItem, EmptyKeyed>>, <<EmptyKeyed>>}

RankingBatches ==
  {<<RankedItem("a")>>, <<RankedItem("b")>>,
   <<RankedItem("c"), [keyword |-> "a", position |-> 2]>>}

\* no write call is under way and one more may be made
Idle == batch.state = "idle" /\ batch.calls < MaxCalls /\ Quiet

\* a write method has prepared its statements, in item order, and cut them
\* into the store calls it will make; with no statement it returns at once
Prepared(table, items, statements, chunks) ==
  [state |-> IF chunks = <<>> THEN "returned" ELSE "running",
   calls |-> batch.calls + 1, table |-> table, items |-> items,
   statements |-> statements, todo |-> chunks, issued |-> <<>>,
   failed |-> <<>>]

\* upsertKeywordBatch, lines 148-188: the statements are prepared
UpsertKeywordBatch(items, lg, source) ==
  /\ Idle
  /\ LET statements == KeywordStatements(items, lg[1], lg[2], source, now)
     IN batch' = Prepared("keywords", items, statements, Chunks(statements))
  /\ UNCHANGED <<tables, now, otherWrites, locals, answer, statsTodo, stats>>

\* upsertRankingBatch, lines 199-231
UpsertRankingBatch(items, domain, lg) ==
  /\ Idle
  /\ LET statements == RankingStatements(items, domain, lg[1], lg[2], now)
     IN batch' = Prepared("keyword_rankings", items, statements,
                          Chunks(statements))
  /\ UNCHANGED <<tables, now, otherWrites, locals, answer, statsTodo, stats>>

\* upsertDomain, lines 242-276: one statement, run on its own
UpsertDomain(domain, lg, data) ==
  /\ Idle
  /\ LET statement == DomainStatement(domain, lg[1], lg[2], data, now)
     IN batch' = Prepared("domains", <<data>>, <<statement>>,
                          <<<<statement>>>>)
  /\ UNCHANGED <<tables, now, otherWrites, locals, answer, statsTodo, stats>>

\* the store applies the next call of the write under way (await db.batch of
\* a chunk, or run of the one statement) at the time it is reached
StoreBatch ==
  /\ batch.state = "running"
  /\ LET chunk == Head(batch.todo)
     IN /\ keywords' = IF batch.table = "keywords"
                       THEN ExecKeywordBatch(keywords, chunk, now)
                       ELSE keywords
        /\ keyword_rankings' = IF batch.table = "keyword_rankings"
                               THEN ExecRankingBatch(keyword_rankings, chunk,
                                                     now)
                               ELSE keyword_rankings
        /\ domains' = IF batch.table = "domains"
                      THEN ExecDomainUpsert(domains, chunk[1], now)
                      ELSE domains
        /\ batch' = [batch EXCEPT
                       !.todo = Tail(@), !.issued = Append(@, chunk),
                       !.state = IF Tail(batch.todo) = <<>> THEN "returned"
                                 ELSE "running"]
  /\ UNCHANGED <<search_logs, now, otherWrites, locals, answer, statsTodo,
                 stats>>

\* the store rejects the call: nothing of the chunk is written (a D1 batch is
\* one transaction); the rejected await throws out of the chunk loop (lines
\* 191-193), so the chunks still to come are never issued and the write
\* method throws
StoreBatchFails ==
  /\ batch.state = "running"
  /\ batch' = [batch EXCEPT
                 !.todo = Tail(@), !.issued = Append(@, Head(batch.todo)),
                 !.failed = Append(@, Head(batch.todo)),
                 !.state = "threw"]
  /\ UNCHANGED <<tables, now, otherWrites, locals, answer, statsTodo, stats>>

\* the write method has returned or thrown; its caller goes on
WriteReturns ==
  /\ batch.state \in {"returned", "threw"}
  /\ batch' = [state |-> "idle", calls |-> batch.calls]
  /\ UNCHANGED <<tables, now, otherWrites, locals, answer, statsTodo, stats>>

\* a long batch: n items with the keywords "1" .. "n", every gap-th of them
\* without a keyword (none when gap = 0)
BulkItems(n, gap) ==
  [i \in 1..n |-> IF gap > 0 /\ i % gap = 0 THEN Unkeyed
                  ELSE [kw |-> ToString(i), vol |-> i, pos |-> i]]

\* logSearch, lines 281-291
SvcLogSearch(toolName, ps, resultCount, cacheHit) ==
  /\ Quiet
  /\ Len(search_logs) < MaxLogs
  /\ search_logs' = Append(search_logs,
                           LogEntry(toolName, ps, resultCount, cacheHit, now))
  /\ UNCHANGED <<keywords, keyword_rankings, domains, now, otherWrites, locals,
                 service>>

\* the validity of the longest class passes: every row written before is
\* expired
WriteTick == Quiet /\ Tick(TTL_KEYWORD_DATA)

\* --------------------------------------- the LIMIT of the read queries
MaxRows == 1001       \* rows that match a query

\* the numbers of matching rows looked at: around every multiple of 50
RowCounts ==
  {n \in 0..MaxRows : n % 50 \in {0, 1, 49}}

\* the limits a caller may ask for; NoLimit stands for a call without one
NoLimit == MaxRows + 1
LimitValues == {-1, 0, 1, 50, 499, 500, 501, 1000, MaxRows, NoLimit}
LimitParams(limit) == IF limit = NoLimit THEN <<>> ELSE [limit |-> limit]

\* the rows a query selects before LIMIT, in the order of its ORDER BY, by
\* their rank
Ranked(n) == [i \in 1..n |-> i]

\* searchKeywords (line 353), searchRankings (line 390) and exportKeywords
\* (line 467) on a table of which n rows match: Math.min(params.limit ||
\* fallback, cap) is bound to LIMIT ?
Paged(op, n, limit, fallback, cap) ==
  /\ Quiet
  /\ answer' = [op |-> op, matching |-> n,
                rows |-> Limited(Ranked(n),
                                 LimitOf(LimitParams(limit), fallback, cap))]
  /\ UNCHANGED <<tables, now, otherWrites, locals, statsTodo, stats, batch>>

\* ------------------------------------------------------------ specifications
\* one search-volume invocation against a store other tools write to
Call == \E ps \in SearchVolumeParams : SVCall(1, ps)
CallOther == \E t \in GeneralTools, ps \in GeneralParams : GCall(1, t, ps)
OtherReturns ==
  \E p \in Procs : \E res \in ToolResults(tool[p]) : GUpstreamReturns(p, res)
StoreCall == \E p \in Procs : GStoreCall(p)
StoreCallFails == \E p \in Procs : GStoreCallFails(p)
Lookup == \E p \in Procs : SVLookup(p)
LookupFails == \E p \in Procs : SVLookupFails(p)
UpstreamReturns ==
  \E p \in Procs, res \in UpstreamResults : SVUpstreamReturns(p, res)
BypassReturns ==
  \E p \in Procs, res \in UpstreamResults : SVBypassReturns(p, res)
Throws == \E p \in Procs : UpstreamThrows(p)
StoreChunk == \E p \in Procs : SVStoreChunk(p)
StoreChunkFails == \E p \in Procs : SVStoreChunkFails(p)
Log == \E p \in Procs : SVLog(p)
LogFails == \E p \in Procs : SVLogFails(p)

\* the clock and the other tools, while the invocation is under way
Running(p) == pc[p] \notin Terminal
Expire == Running(1) /\ Tick(TTL_KEYWORD_DATA)
OtherWrite == Running(1) /\ OtherToolWrite(KW)

Next ==
  \/ Expire
  \/ OtherWrite
  \/ Call
  \/ Lookup
  \/ LookupFails
  \/ UpstreamReturns
  \/ BypassReturns
  \/ Throws
  \/ StoreChunk
  \/ StoreChunkFails
  \/ Log
  \/ LogFails
  \/ CallOther
  \/ OtherReturns
  \/ StoreCall
  \/ StoreCallFails

Spec == Init /\ [][Next]_vars

\* ---------------------------------------- the same request made a second time
\* the first request, and then the same params again once it is over
\* the requests and the upstream results of this scenario: over two keywords,
\* one whose monthly series upstream gives as a list and one as a map
TwiceKW == {"a", "c"}
TwiceParams ==
  {[keywords |-> ks, location_name |-> l, language_code |-> g] :
     ks \in SeqsUpTo(TwiceKW, MaxItems), l \in ReqLocations,
     g \in ReqLanguages}
TwiceResults ==
  {TextResult([status |-> SUCCESS_STATUS, count |-> Len(ks),
               items |-> [i \in DOMAIN ks |-> SearchVolumeItem(ks[i])]]) :
     ks \in SeqsUpTo(TwiceKW, MaxItems)}
  \cup {TextResult([status_code |-> ERROR_STATUS, status_message |-> "error"])}

First == \E ps \in TwiceParams : SVCall(1, ps)
Again == pc[1] \in Terminal /\ SVCall(2, params[1])

\* half a TTL passes, or another tool writes, before the first request and
\* between the two (a request takes no part of a day)
Between == pc[2] = "idle" /\ pc[1] \in Terminal \cup {"idle"}
Pass == Between /\ Tick(TTL_KEYWORD_DATA \div 2)
Meanwhile == Between /\ OtherToolWrite(TwiceKW)
UpstreamReturnsTwice ==
  \E p \in Procs, res \in TwiceResults : SVUpstreamReturns(p, res)
BypassReturnsTwice ==
  \E p \in Procs, res \in TwiceResults : SVBypassReturns(p, res)

NextTwice ==
  \/ First
  \/ Again
  \/ Pass
  \/ Meanwhile
  \/ Lookup
  \/ LookupFails
  \/ UpstreamReturnsTwice
  \/ BypassReturnsTwice
  \/ Throws
  \/ StoreChunk
  \/ StoreChunkFails
  \/ Log
  \/ LogFails

SpecTwice == Init /\ [][NextTwice]_vars

\* ------------------------------------------------ the calls on CacheService
Upsert == \E kw \in SvcKW, lg \in SvcLocales : SvcUpsert(kw, lg)
\* the item whose monthly series the search-volume parser gives as a map
UpsertMap == SvcUpsert("c", <<"US", "en">>)
GetCached ==
  \E kws \in LookupKeywords, lg \in SvcLocales : SvcGetCachedKeywords(kws, lg)
Search == \E ps \in SearchParams : SvcSearchKeywords(ps)
Export == \E ps \in ExportParams : SvcExportKeywords(ps)
Clear == \E ps \in ClearParams : SvcClearCache(ps)

NextService ==
  \/ SvcTick
  \/ Upsert
  \/ UpsertMap
  \/ GetCached
  \/ Search
  \/ Export
  \/ SvcGetStats
  \/ SvcStatsStatement
  \/ Clear
  \/ SvcReturn

SpecService == Init /\ [][NextService]_vars

\* ------------------------------------------ the write calls on CacheService
\* the write methods called one after another, each store call a step of its
\* own, while time passes and the tables are cleared
WriteSources == {"google_ads", "keyword_suggestions"}
KeywordBatch ==
  \E items \in KeywordBatches, lg \in SvcLocales, source \in WriteSources :
    UpsertKeywordBatch(items, lg, source)
RankingBatch ==
  \E items \in RankingBatches, lg \in SvcLocales :
    UpsertRankingBatch(items, "x.com", lg)
DomainWrite ==
  \E kw \in SvcKW, lg \in SvcLocales : UpsertDomain("x.com", lg, DomainItem(kw))
LogSearch ==
  SvcLogSearch(SEARCH_VOLUME_TOOL, [location_name |-> "US"], 1, TRUE)

NextWrites ==
  \/ WriteTick
  \/ KeywordBatch
  \/ RankingBatch
  \/ DomainWrite
  \/ StoreBatch
  \/ StoreBatchFails
  \/ WriteReturns
  \/ LogSearch
  \/ Clear
  \/ SvcReturn

SpecWrites == Init /\ [][NextWrites]_vars

\* ------------------------------------------------ one long batch, chunked
MaxBulk == 120        \* items of the longest batch
BulkGaps == {0, 7}

\* one long batch is written to the empty cache
BulkKeywords ==
  /\ batch.calls = 0
  /\ \E n \in 0..MaxBulk, gap \in BulkGaps :
       UpsertKeywordBatch(BulkItems(n, gap), <<"US", "en">>, "google_ads")
BulkRankings ==
  /\ batch.calls = 0
  /\ \E n \in 0..MaxBulk, gap \in BulkGaps :
       UpsertRankingBatch(BulkItems(n, gap), "x.com", <<"US", "en">>)

NextBulk ==
  \/ BulkKeywords
  \/ BulkRankings
  \/ StoreBatch
  \/ StoreBatchFails
  \/ WriteReturns

SpecBulk == Init /\ [][NextBulk]_vars

\* ------------------------------------------- the read queries on many rows
PagedSearchKeywords ==
  \E n \in RowCounts, limit \in LimitValues :
    Paged("searchKeywords", n, limit, 50, 500)
PagedSearchRankings ==
  \E n \in RowCounts, limit \in LimitValues :
    Paged("searchRankings", n, limit, 50, 500)
PagedExportKeywords ==
  \E n \in RowCounts, limit \in LimitValues :
    Paged("exportKeywords", n, limit, 100, 1000)

NextPaged ==
  \/ PagedSearchKeywords
  \/ PagedSearchRankings
  \/ PagedExportKeywords
  \/ SvcReturn

SpecPaged == Init /\ [][NextPaged]_vars

\* ------------------------------------------------------- the cache tools
\* the three tools called on a cache that is written to and ages
RankingParams ==
  {[domain |-> "x.com"], [domain |-> "x.com", location |-> "FI"],
   [domain |-> "x.com", language |-> "en", limit |-> 1], [domain |-> "y.com"]}

CacheSearch ==
  \/ \E ps \in SearchParams : SvcSearchKeywords(ps)
  \/ \E ps \in RankingParams : SvcSearchRankings(ps)
CacheExport == \E ps \in ExportParams : SvcExportKeywords(ps)
ReadThrows ==
  \E op \in SERVICE_READS \ {"getStats"}, e \in Throwables :
    SvcReadThrows(op, e)
StatsThrows == \E e \in Throwables : SvcStatsStatementFails(e)

UpsertRanking == SvcUpsertRanking("a", "x.com", <<"US", "en">>)

NextTools ==
  \/ SvcTick
  \/ Upsert
  \/ UpsertRanking
  \/ CacheSearch
  \/ CacheExport
  \/ SvcGetStats
  \/ SvcStatsStatement
  \/ ReadThrows
  \/ StatsThrows
  \/ ToolReturns
  \/ ToolDone

SpecTools == Init /\ [][NextTools]_vars

\* ------------------------------------------- single upserts and their lookup
\* what callers give upsertKeyword: a volume only, every column, nothing
KeywordData ==
  {[search_volume |-> 1200],
   [search_volume |-> 0, cpc |-> 2, competition |-> "LOW",
    intent |-> "commercial", keyword_difficulty |-> 40,
    monthly_searches |-> List(<<3, 2>>)],
   <<>>}

\* the requested pair and one differing from it in each component
LookupLocales == SvcLocales \cup {<<"US", "fi">>}

\* the keys written: "a" under every pair, "b" under the requested one
UpsertKeys ==
  {<<"a", lg>> : lg \in LookupLocales} \cup {<<"b", <<"US", "en">>>>}

UpsertKeyword ==
  \E key \in UpsertKeys, data \in KeywordData :
    SvcUpsertKeyword(key[1], key[2], data, "google_ads")
LookupCached ==
  \E kws \in LookupKeywords, lg \in LookupLocales :
    SvcGetCachedKeywords(kws, lg)

NextLookup ==
  \/ SvcTick
  \/ UpsertKeyword
  \/ LookupCached
  \/ SvcReturn

SpecLookup == Init /\ [][NextLookup]_vars

\* ------------------------------- two search-volume requests at the same time
\* both invocations ask for "a" under the same location and language; upstream
\* gives each a snapshot of its own: the full item or one with a volume only
RaceParams ==
  {[keywords |-> ks, location_name |-> "US", language_code |-> "en"] :
     ks \in {<<"a">>, <<"c", "a">>}}
RaceResults ==
  {TextResult([status |-> SUCCESS_STATUS, count |-> Len(items),
               items |-> items]) :
     items \in {<<SearchVolumeItem("a")>>, <<[kw |-> "a", vol |-> 7]>>,
                <<SearchVolumeItem("c"), [kw |-> "a", vol |-> 7]>>}}

RaceCall == \E p \in Procs, ps \in RaceParams : SVCall(p, ps)
RaceUpstreamReturns ==
  \E p \in Procs, res \in RaceResults : SVUpstreamReturns(p, res)
\* half a TTL passes while an invocation is under way
RaceTick ==
  /\ \E p \in Procs : Running(p) /\ pc[p] # "idle"
  /\ Tick(TTL_KEYWORD_DATA \div 2)

NextRace ==
  \/ RaceCall
  \/ RaceTick
  \/ Lookup
  \/ LookupFails
  \/ RaceUpstreamReturns
  \/ Throws
  \/ StoreChunk
  \/ StoreChunkFails
  \/ Log
  \/ LogFails

SpecRace == Init /\ [][NextRace]_vars

\* --------------------------------------------- searchKeywords, filter and sort
\* calls beyond SearchParams: no parameter at all, names of sort fields and
\* directions outside the allow-list, filters combined
SortCases ==
  {<<>>, [sort_by |-> "search_volume"], [sort_by |-> "constructor"],
   [sort_by |-> "toString", sort_order |-> "asc"], [sort_order |-> "ASC"],
   [sort_by |-> "cpc", sort_order |-> "desc"],
   [competition |-> "LOW", min_volume |-> 0],
   [keywords |-> <<"a", "b">>, language |-> "fi"]}
SearchCases == SearchParams \cup SortCases

SearchSorted == \E ps \in SearchCases : SvcSearchKeywords(ps)

NextSearch ==
  \/ SvcTick
  \/ UpsertKeyword
  \/ SearchSorted
  \/ SvcReturn

SpecSearch == Init /\ [][NextSearch]_vars

\* ------------------------------ stored monthly texts that are not a series
\* texts the column monthly_searches may hold: one that does not parse, an
\* empty list, an empty map, JSON values that are no object, and a series
StoredTexts ==
  {[json |-> "invalid"], [json |-> "array", elems |-> <<>>],
   [json |-> "object", members |-> <<>>], [json |-> "null"],
   [json |-> "number"], [json |-> "string"],
   [json |-> "array", elems |-> <<3, 2>>]}

\* what the writer of such a record gives upsertKeyword: the text as a string,
\* or no series at all (the column is NULL)
TextData ==
  {[search_volume |-> 10, monthly_searches |-> Text(raw)] : raw \in StoredTexts}
  \cup {[search_volume |-> 10]}

TextKW == {"a", "b"}
TextParams ==
  {[keywords |-> ks, location_name |-> "US", language_code |-> "en"] :
     ks \in SeqsUpTo(TextKW, MaxItems) \ {<<>>}}

\* the records are there before the request is made
TextWrite ==
  /\ pc[1] = "idle"
  /\ \E kw \in TextKW, data \in TextData :
       SvcUpsertKeyword(kw, <<"US", "en">>, data, "google_ads")
TextCall == \E ps \in TextParams : SVCall(1, ps)

NextTexts ==
  \/ TextWrite
  \/ TextCall
  \/ Lookup
  \/ LookupFails
  \/ UpstreamReturns
  \/ Throws
  \/ StoreChunk
  \/ StoreChunkFails
  \/ Log
  \/ LogFails

SpecTexts == Init /\ [][NextTexts]_vars

\* ------------------------------- rankings whose keyword records are cleared
\* a ranked-keywords invocation and, after it, a domain-overview invocation
\* fill the cache; the tables are cleared and the rankings of the domain
\* searched
JoinParams ==
  [location_name |-> "US", language_code |-> "en", target |-> "x.com"]
JoinCall ==
  \/ GCall(1, RANKED_KEYWORDS_TOOL, JoinParams)
  \/ pc[1] = "done" /\ GCall(2, DOMAIN_RANK_TOOL, JoinParams)
JoinSearch == \E ps \in RankingParams : SvcSearchRankings(ps)

NextJoin ==
  \/ SvcTick
  \/ JoinCall
  \/ OtherReturns
  \/ StoreCall
  \/ Clear
  \/ JoinSearch
  \/ SvcReturn

SpecJoin == Init /\ [][NextJoin]_vars

\* ------------------------------------------------ written, then served
\* one invocation fills the cache, through a keyword tool of the general path
\* or through the search-volume handler; when it is over a search-volume
\* request of the same location and language is made
RoundLocale == [location_name |-> "US", language_code |-> "en"]
RoundParams ==
  {[keywords |-> ks, location_name |-> "US", language_code |-> "en"] :
     ks \in {<<"a">>, <<"c">>, <<"a", "b">>}}
RoundWrite ==
  \/ GCall(1, KEYWORD_SUGGESTIONS_TOOL, RoundLocale)
  \/ \E ps \in RoundParams : SVCall(1, ps)
RoundRead == pc[1] \in Terminal /\ \E ps \in RoundParams : SVCall(2, ps)

NextRound ==
  \/ RoundWrite
  \/ RoundRead
  \/ OtherReturns
  \/ StoreCall
  \/ Lookup
  \/ UpstreamReturns
  \/ StoreChunk
  \/ Log

SpecRound == Init /\ [][NextRound]_vars

\* --------------------------------------------------- the filters of a clear
\* the four tables are written under three location/language pairs and
\* cleared with and without a table name, with and without filters
ClearCases ==
  {<<>>, [location |-> "FI"],
   [keyword_like |-> "a", location |-> "US", language |-> "en"],
   [table |-> "keywords", language |-> "fi"],
   [table |-> "keywords", keyword_like |-> "b"],
   [table |-> "keyword_rankings", keyword_like |-> "a", location |-> "US",
    language |-> "en"],
   [table |-> "keyword_rankings", language |-> "fi"],
   [table |-> "domains", keyword_like |-> "a"],
   [table |-> "domains", keyword_like |-> "a", location |-> "US"],
   [table |-> "search_logs"],
   [table |-> "search_logs", keyword_like |-> "a", location |-> "FI",
    language |-> "fi"]}
ClearWriteKeyword ==
  \E key \in UpsertKeys :
    SvcUpsertKeyword(key[1], key[2], [search_volume |-> 1200], "google_ads")
ClearWriteRanking ==
  \E lg \in LookupLocales : SvcUpsertRanking("a", "x.com", lg)
ClearCase == \E ps \in ClearCases : SvcClearCache(ps)

NextClear ==
  \/ ClearWriteKeyword
  \/ ClearWriteRanking
  \/ DomainWrite
  \/ StoreBatch
  \/ WriteReturns
  \/ LogSearch
  \/ ClearCase
  \/ SvcReturn

SpecClear == Init /\ [][NextClear]_vars

\* -------------------------------------------- requests that repeat a keyword
\* records of "a" and "c" may be there before a request that names a keyword
\* twice is made
MergeParams ==
  {[keywords |-> ks, location_name |-> "US", language_code |-> "en"] :
     ks \in {<<"a", "b">>, <<"b", "b">>, <<"a", "b", "b">>,
             <<"b", "a", "b", "c">>}}
MergeWrite ==
  /\ pc[1] = "idle"
  /\ \E kw \in {"a", "c"} :
       SvcUpsertKeyword(kw, <<"US", "en">>, [search_volume |-> 10],
                        "google_ads")
MergeCall == \E ps \in MergeParams : SVCall(1, ps)

NextMerge ==
  \/ MergeWrite
  \/ MergeCall
  \/ Lookup
  \/ LookupFails
  \/ UpstreamReturns
  \/ Throws
  \/ StoreChunk
  \/ StoreChunkFails
  \/ Log
  \/ LogFails

SpecMerge == Init /\ [][NextMerge]_vars

\* ---------------------------------------------------- calls that all return
\* every call an invocation awaits (the upstream call, the lookup, a store
\* call, the log append) returns or fails in the end
Answered(p) ==
  \/ SVLookup(p) \/ SVLookupFails(p)
  \/ \E res \in TwiceResults : SVUpstreamReturns(p, res)
  \/ \E res \in TwiceResults : SVBypassReturns(p, res)
  \/ UpstreamThrows(p)
  \/ SVStoreChunk(p) \/ SVStoreChunkFails(p)
  \/ SVLog(p) \/ SVLogFails(p)
  \/ \E res \in ToolResults(tool[p]) : GUpstreamReturns(p, res)
  \/ GStoreCall(p) \/ GStoreCallFails(p)

\* a search-volume invocation and a ranked-keywords invocation, made at any
\* time, their steps interleaving
LiveParams ==
  {[keywords |-> ks, location_name |-> "US", language_code |-> "en"] :
     ks \in {<<>>, <<"a", "c">>}}
LiveCall ==
  \/ \E ps \in LiveParams : SVCall(1, ps)
  \/ GCall(2, RANKED_KEYWORDS_TOOL, JoinParams)

NextLive ==
  \/ LiveCall
  \/ Lookup
  \/ LookupFails
  \/ UpstreamReturnsTwice
  \/ BypassReturnsTwice
  \/ Throws
  \/ StoreChunk
  \/ StoreChunkFails
  \/ Log
  \/ LogFails
  \/ OtherReturns
  \/ StoreCall
  \/ StoreCallFails

SpecLive ==
  Init /\ [][NextLive]_vars /\ \A p \in Procs : WF_vars(Answered(p))

\* ------------------------------------------------------- the worker's door
\* worker/index-worker.ts.  A path is the sequence of its segments ("/mcp/x"
\* is <<"mcp", "x">>, "/mcp/" is <<"mcp", "">>, "/" is <<>>); a variable of
\* the environment that is not set is an absent field.
\* lines 122-131
createErrorResponse(code, message) ==
  [status |-> IF code = -32001 THEN 401 ELSE 400,
   error |-> [code |-> code, message |-> message]]

Forbidden == [status |-> 403, error |-> "forbidden"]

\* line 153: /^\/(mcp|http|sse)\/([^/]+)(\/message)?$/
MatchesMcp(path) ==
  /\ Len(path) \in {2, 3}
  /\ path[1] \in {"mcp", "http", "sse"}
  /\ path[2] # ""
  /\ Len(path) = 3 => path[3] = "message"

\* line 182
BARE_PATHS == {<<"mcp">>, <<"http">>, <<"sse">>, <<"sse", "message">>}

\* lines 134-190: what fetch answers; a request handed to the agent is the
\* field forwarded, with the serving entry point and the rewritten path
fetch(request, env) ==
  LET path == request.path IN
  IF path = <<"health">> /\ request.method = "GET"
  THEN [status |-> 200, body |-> "healthy"]
  ELSE IF MatchesMcp(path) THEN
    LET route == path[1]
        token == path[2]
        messageSuffix == Len(path) = 3
    IN IF ~Truthy(env, "SHARED_SECRET") \/ token # env.SHARED_SECRET
       THEN Forbidden
       ELSE IF \/ ~Truthy(env, "DATAFORSEO_USERNAME")
               \/ ~Truthy(env, "DATAFORSEO_PASSWORD")
       THEN createErrorResponse(-32001, "credentials not configured")
       ELSE [forwarded |->
               [agent |-> IF route = "sse" THEN "serveSSE" ELSE "serve",
                path |-> IF route = "sse" /\ messageSuffix
                         THEN <<"sse", "message">> ELSE <<route>>]]
  ELSE IF path \in BARE_PATHS THEN Forbidden
  ELSE [status |-> 404, body |-> "Not found"]

\* the requests and environments looked at
Tokens == {"s3cret", "wrong", "message"}
Paths ==
  {<<>>, <<"health">>, <<"health", "x">>, <<"other">>, <<"mcp", "">>,
   <<"message">>}
  \cup BARE_PATHS
  \cup {<<r, t>> : r \in {"mcp", "http", "sse", "other"}, t \in Tokens}
  \cup {<<r, t, "message">> : r \in {"mcp", "http", "sse"}, t \in Tokens}
  \cup {<<"sse", t, "other">> : t \in Tokens}
Requests == [method : {"GET", "POST"}, path : Paths]
Secrets == {<<>>} \cup {[SHARED_SECRET |-> s] : s \in {"", "s3cret", "message"}}
Credentials ==
  {<<>>, [DATAFORSEO_USERNAME |-> "u", DATAFORSEO_PASSWORD |-> ""],
   [DATAFORSEO_USERNAME |-> "u", DATAFORSEO_PASSWORD |-> "p"]}
Envs == {s @@ c : s \in Secrets, c \in Credentials}

\* a request arrives at the worker and is answered
Fetch ==
  /\ Free
  /\ \E request \in Requests, env \in Envs :
       answer' = [op |-> "fetch", request |-> request, env |-> env,
                  response |-> fetch(request, env)]
  /\ UNCHANGED <<tables, now, otherWrites, locals, statsTodo, stats, batch>>

\* the tools of the cache module
TOOLS == {"cache_search", "cache_stats", "cache_export"}

\* lines 38-116 of worker/index-worker.ts: what init registers on the server.
\* moduleTools are the names of the tools of the loaded modules, connects
\* tells whether verifyConnection (cache-service.ts 542-544) answers or
\* throws; its exception is caught and logged (lines 65-70).
init_StopsOnFailure(env, moduleTools, connects) ==
  LET db == Has(env, "SEO_CACHE_DB")
  IN [registered |->
        IF db /\ ~connects THEN {}
        ELSE {[name |-> n, wrapped |-> db] : n \in moduleTools}
             \cup IF db THEN {[name |-> n, wrapped |-> FALSE] : n \in TOOLS}
                        ELSE {}]

init(env, moduleTools, connects) ==
  LET db == Has(env, "SEO_CACHE_DB")
      cacheService == db
  IN [registered |->
        {[name |-> n, wrapped |-> cacheService] : n \in moduleTools}
        \cup IF db THEN {[name |-> n, wrapped |-> FALSE] : n \in TOOLS}
                   ELSE {}]

ModuleTools ==
  {SEARCH_VOLUME_TOOL, KEYWORD_SUGGESTIONS_TOOL, RANKED_KEYWORDS_TOOL,
   DOMAIN_RANK_TOOL, SERP_TOOL}
Bindings == {<<>>, [SEO_CACHE_DB |-> "D1"]}

\* the agent starts: the connectivity check runs only with a binding
AgentInit ==
  /\ Free
  /\ \E env \in Bindings, moduleTools \in SUBSET ModuleTools,
        connects \in BOOLEAN :
       /\ ~Has(env, "SEO_CACHE_DB") => connects
       /\ answer' = [op |-> "init", env |-> env, moduleTools |-> moduleTools,
                     check |-> IF ~Has(env, "SEO_CACHE_DB") THEN "none"
                               ELSE IF connects THEN "ok" ELSE "failed",
                     agent |-> init(env, moduleTools, connects)]
  /\ UNCHANGED <<tables, now, otherWrites, locals, statsTodo, stats, batch>>

NextWorker == Fetch \/ AgentInit \/ SvcReturn
SpecWorker == Init /\ [][NextWorker]_vars

\* ------------------------------------------------- vocabulary of the claims
Kws(p) == ParamKeywords(params[p])
Items(res) == res.content[1].text.items
IsSearchVolume(p) == tool[p] = SEARCH_VOLUME_TOOL

\* the invocation is past its cache lookup
LookedUp(p) ==
  IsSearchVolume(p) /\ Kws(p) # <<>> /\ pc[p] \notin {"idle", "lookup"}

LiveKeywords(p) == {r.keyword : r \in liveAtLookup[p]}
RecordOf(p, kw) == CHOOSE r \in liveAtLookup[p] : r.keyword = kw

\* the requested keywords that had no live record, in input order
NotLive(p) ==
  LET Absent(kw) == kw \notin LiveKeywords(p) IN SelectSeq(Kws(p), Absent)

FullHit(p) == LookedUp(p) /\ ~lookupFailed[p] /\ NotLive(p) = <<>>
FullMiss(p) == LookedUp(p) /\ LiveKeywords(p) = {}
PartialHit(p) ==
  /\ LookedUp(p) /\ ~lookupFailed[p]
  /\ LiveKeywords(p) # {} /\ NotLive(p) # <<>>

\* item is record r in the compact wire format: kw and vol, cpc when the
\* record has one, comp when it has a non-empty one, monthly when its stored
\* series decodes to a non-empty list; nothing else
IsWireOf(item, r) ==
  /\ DOMAIN item \subseteq {"kw", "vol", "cpc", "comp", "monthly"}
  /\ item.kw = r.keyword /\ item.vol = r.search_volume
  /\ Has(item, "cpc") <=> Has(r, "cpc")
  /\ Has(item, "cpc") => item.cpc = r.cpc
  /\ Has(item, "comp") <=> (Has(r, "competition") /\ r.competition # "")
  /\ Has(item, "comp") => item.comp = r.competition
  /\ Has(item, "monthly") <=> parseCachedMonthly(r) # <<>>
  /\ Has(item, "monthly") => item.monthly = List(parseCachedMonthly(r))

\* the response is a success envelope whose i-th item is the cached record of
\* the i-th requested keyword
FromCache(p) ==
  /\ Has(response[p], "content")
  /\ Has(response[p].content[1].text, "items")
  /\ response[p].content[1].text.status = SUCCESS_STATUS
  /\ response[p].content[1].text.count = Len(Kws(p))
  /\ Len(Items(response[p])) = Len(Kws(p))
  /\ \A i \in DOMAIN Kws(p) :
       /\ Kws(p)[i] \in LiveKeywords(p)
       /\ IsWireOf(Items(response[p])[i], RecordOf(p, Kws(p)[i]))

LoggedOnce(p, hit) ==
  /\ Len(logged[p]) = 1
  /\ logged[p][1].cache_hit = hit
  /\ logged[p][1].tool_name = tool[p]
  /\ \E i \in DOMAIN search_logs : search_logs[i] = logged[p][1]

\* ------------------------------------------------------------------- claims
\* C1 as stated: on a full hit of a non-empty keyword list the handler
\* returns a response built only from the cached records, appends a log row
\* with cache_hit = true and calls upstream not once.
C1_AsStated ==
  \A p \in Procs : FullHit(p) /\ pc[p] \in Terminal =>
    /\ pc[p] = "done" /\ FromCache(p)
    /\ upstreamCalls[p] = <<>>
    /\ LoggedOnce(p, 1)

\* C1 amended: on a full hit the handler never calls upstream and returns a
\* response built only from the cached records; it appends one log row with
\* cache_hit = true, unless that append fails, and then it appends none.
C1_FullHit ==
  \A p \in Procs : FullHit(p) =>
    /\ upstreamCalls[p] = <<>>
    /\ pc[p] \in {"log_hit", "done"}
    /\ pc[p] = "done" =>
         /\ FromCache(p)
         /\ IF logFailed[p] THEN logged[p] = <<>> ELSE LoggedOnce(p, 1)

C1_Witness ==
  /\ pc[1] = "done" /\ FullHit(1) /\ ~logFailed[1]
  /\ Len(Kws(1)) = 2 /\ LoggedOnce(1, 1)

\* C3: when a requested keyword has no live record, upstream is called once,
\* with the keyword list narrowed to the missing keywords in input order and
\* every other parameter as given; a lookup that failed found nothing, so
\* every requested keyword is missing then.
C3_OnlyMissingFetched ==
  \A p \in Procs : LookedUp(p) =>
    LET missing == IF lookupFailed[p] THEN Kws(p) ELSE NotLive(p)
    IN missing # <<>> =>
         /\ Len(upstreamCalls[p]) = 1
         /\ upstreamCalls[p][1].keywords = missing
         /\ upstreamCalls[p][1] = [params[p] EXCEPT !.keywords = missing]
         /\ ~lookupFailed[p] =>
              \A i \in DOMAIN missing : missing[i] \notin LiveKeywords(p)

C3_Witness ==
  /\ pc[1] = "done" /\ PartialHit(1) /\ Len(Kws(1)) = 3
  /\ Len(upstreamCalls[1][1].keywords) = 2

\* C4: on a partial hit the merged response has one item per requested
\* keyword, the i-th item being for the i-th requested keyword, whatever the
\* order of the upstream items.
C4_InputOrder ==
  \A p \in Procs : PartialHit(p) /\ pc[p] \in {"log_merge", "done"} =>
    /\ Len(Items(response[p])) = Len(Kws(p))
    /\ \A i \in DOMAIN Kws(p) : Items(response[p])[i].kw = Kws(p)[i]

C4_Witness ==
  /\ pc[1] = "done" /\ PartialHit(1)
  /\ Kws(1) = <<"a", "b", "c">>
  /\ Len(extractParsedItems(result[1])) = 2
  /\ extractParsedItems(result[1])[1].kw = "c"
  /\ extractParsedItems(result[1])[2].kw = "b"

UpstreamGave(p, kw) ==
  \E j \in DOMAIN extractParsedItems(result[p]) :
     extractParsedItems(result[p])[j].kw = kw
LastUpstreamItem(p, kw) ==
  LET its == extractParsedItems(result[p])
      at == {j \in DOMAIN its : its[j].kw = kw}
  IN its[CHOOSE j \in at : \A k \in at : k <= j]

\* C5 as stated: on a partial hit each merged item is the upstream item of
\* its keyword when upstream returned one, and otherwise the cached record in
\* the compact wire format.
C5_AsStated ==
  \A p \in Procs : PartialHit(p) /\ pc[p] \in {"log_merge", "done"} =>
    \A i \in DOMAIN Kws(p) :
      IF UpstreamGave(p, Kws(p)[i])
      THEN Items(response[p])[i] = LastUpstreamItem(p, Kws(p)[i])
      ELSE /\ Kws(p)[i] \in LiveKeywords(p)
           /\ IsWireOf(Items(response[p])[i], RecordOf(p, Kws(p)[i]))

\* C5 amended: on a partial hit each merged item is the upstream item of its
\* keyword when upstream returned one, else the cached record in the compact
\* wire format when there is one, else the placeholder {kw, vol: 0}.
C5_MergeSources ==
  \A p \in Procs : PartialHit(p) /\ pc[p] \in {"log_merge", "done"} =>
    \A i \in DOMAIN Kws(p) :
      IF UpstreamGave(p, Kws(p)[i])
      THEN Items(response[p])[i] = LastUpstreamItem(p, Kws(p)[i])
      ELSE IF Kws(p)[i] \in LiveKeywords(p)
      THEN IsWireOf(Items(response[p])[i], RecordOf(p, Kws(p)[i]))
      ELSE Items(response[p])[i] = [kw |-> Kws(p)[i], vol |-> 0]

C5_Witness ==
  /\ pc[1] = "done" /\ PartialHit(1) /\ Len(Kws(1)) = 3
  /\ \E i, j, k \in DOMAIN Kws(1) :
       /\ UpstreamGave(1, Kws(1)[i])
       /\ ~UpstreamGave(1, Kws(1)[j]) /\ Kws(1)[j] \in LiveKeywords(1)
       /\ ~UpstreamGave(1, Kws(1)[k]) /\ Kws(1)[k] \notin LiveKeywords(1)

\* C6 as stated: on a full miss the caller receives exactly the upstream
\* result and a log row with cache_hit = false is appended.
C6_AsStated ==
  \A p \in Procs : FullMiss(p) /\ pc[p] = "done" =>
    /\ response[p] = result[p] /\ result[p] \in UpstreamResults
    /\ LoggedOnce(p, 0)

\* C6 amended: on a full miss, when upstream returns a result the caller
\* receives exactly that result and one log row with cache_hit = false is
\* appended unless that append fails; when upstream throws, its error reaches
\* the caller and no log row is appended.
C6_FullMiss ==
  \A p \in Procs : FullMiss(p) =>
    /\ pc[p] = "done" =>
         /\ response[p] = result[p] /\ result[p] \in UpstreamResults
         /\ IF logFailed[p] THEN logged[p] = <<>> ELSE LoggedOnce(p, 0)
    /\ pc[p] = "failed" =>
         /\ response[p] = [error |-> "upstream"]
         /\ result[p] = NoResult /\ logged[p] = <<>>
    /\ pc[p] \notin Terminal => logged[p] = <<>>

C6_Witness ==
  /\ pc[1] = "done" /\ FullMiss(1) /\ ~lookupFailed[1] /\ keywords # {}
  /\ Len(Kws(1)) = 2 /\ LoggedOnce(1, 0)
  /\ Len(extractParsedItems(result[1])) = 2

\* C7: a failed cache lookup does not fail the request: upstream is called
\* with all the requested keywords and its result is returned as it is; the
\* request fails only when upstream itself does.
C7_LookupFailure ==
  \A p \in Procs : lookupFailed[p] =>
    /\ pc[p] # "log_hit" /\ pc[p] # "log_merge"
    /\ upstreamCalls[p] = <<params[p]>>
    /\ pc[p] = "done" =>
         response[p] = result[p] /\ result[p] \in UpstreamResults
    /\ pc[p] = "failed" => response[p] = [error |-> "upstream"]

C7_Witness ==
  /\ pc[1] = "done" /\ lookupFailed[1] /\ LiveKeywords(1) # {}
  /\ response[1] = result[1]

\* upstream returned a result to the invocation
UpstreamReturned(p) == result[p] # NoResult

\* what the caller receives when no write and no log append fails: on the
\* search-volume path with a non-empty lookup the merge of the cached records
\* and the upstream items, and the upstream result everywhere else
ResponseOfSuccess(p) ==
  IF IsSearchVolume(p) /\ Kws(p) # <<>> /\ DOMAIN cachedMap[p] # {}
  THEN Synthesized(MergedItems(Kws(p), cachedMap[p],
                               extractParsedItems(result[p])))
  ELSE result[p]

\* C8: on both paths, once upstream has returned, a failing cache write or log
\* append never reaches the caller: the invocation does not fail, and its
\* response is the one it gives when every write succeeds.
C8_WriteFailureSwallowed ==
  \A p \in Procs : UpstreamReturned(p) =>
    /\ pc[p] # "failed"
    /\ pc[p] = "done" => response[p] = ResponseOfSuccess(p)

C8_Witness ==
  /\ pc[1] = "done" /\ ~IsSearchVolume(1) /\ storeFailed[1]
  /\ extractParsedItems(result[1]) # <<>>
  /\ response[1] = result[1]

\* the upstream result is not a success envelope
IsErrorResult(res) ==
  ~(/\ Has(res, "content")
    /\ Has(res.content[1].text, "status")
    /\ res.content[1].text.status = SUCCESS_STATUS)

\* C9 as stated: when upstream throws, or returns an envelope whose status
\* is not the success code, the caller receives that outcome untouched and the
\* invocation writes to none of the keyword, ranking and domain tables, on
\* the general path and on the search-volume path, partial hits included.
C9_AsStated ==
  \A p \in Procs :
    /\ pc[p] = "failed" =>
         response[p] = [error |-> "upstream"] /\ wrote[p] = {}
    /\ pc[p] = "done" /\ UpstreamReturned(p) /\ IsErrorResult(result[p]) =>
         response[p] = result[p] /\ wrote[p] = {}

\* the monthly series of an item as the wire carries it: newest first, <<>>
\* when the item has none
MonthlyOnWire(item) ==
  IF ~Has(item, "monthly") THEN <<>>
  ELSE IF item.monthly.t = "list" THEN item.monthly.v
  ELSE LET keys == SortReverse({item.monthly.v[j][1] :
                                  j \in DOMAIN item.monthly.v})
       IN [i \in DOMAIN keys |-> MemberValue(item.monthly.v, keys[i])]

\* item2 is item1 in the compact wire format: kw, vol, cpc, a non-empty comp
\* and a non-empty monthly list, newest first; nothing else
SameOnWire(item2, item1) ==
  /\ DOMAIN item2 \subseteq {"kw", "vol", "cpc", "comp", "monthly"}
  /\ item2.kw = item1.kw /\ item2.vol = item1.vol
  /\ Has(item2, "cpc") <=> Has(item1, "cpc")
  /\ Has(item2, "cpc") => item2.cpc = item1.cpc
  /\ Has(item2, "comp") <=> (Has(item1, "comp") /\ item1.comp # "")
  /\ Has(item2, "comp") => item2.comp = item1.comp
  /\ Has(item2, "monthly") <=> MonthlyOnWire(item1) # <<>>
  /\ Has(item2, "monthly") => item2.monthly = List(MonthlyOnWire(item1))

\* both requests, of a non-empty list, are over and returned, the second
\* made less than a TTL after the first
TwiceInWindow ==
  /\ IsSearchVolume(1) /\ IsSearchVolume(2) /\ Kws(1) # <<>>
  /\ pc[1] = "done" /\ pc[2] = "done"
  /\ stamp[2].called < stamp[1].called + TTL_KEYWORD_DATA

StoredThenLookedUp ==
  /\ IsSearchVolume(1) /\ pc[1] = "done" /\ Kws(1) # <<>>
  /\ \A i \in DOMAIN Kws(1) : UpstreamGave(1, Kws(1)[i])
  /\ ~storeFailed[1]
  /\ LookedUp(2) /\ ~lookupFailed[2]
  /\ stamp[2].looked < stamp[1].fetched + TTL_KEYWORD_DATA
  /\ \A r \in liveAtLookup[2] : r.source = "google_ads"

KeyOf(r) == <<r.keyword, r.location, r.language>>
Expired(r) == r.expires_at <= now

\* the keys of the rows the call that has just run returned
AnswerKeys ==
  IF answer.op = "getCachedKeywords"
    THEN {KeyOf(answer.map[k]) : k \in DOMAIN answer.map}
  ELSE IF answer.op = "searchKeywords"
    THEN {<<answer.rows[i].kw, answer.rows[i].location,
            answer.rows[i].language>> : i \in DOMAIN answer.rows}
  ELSE IF answer.op = "exportKeywords" /\ Has(answer.out, "json")
    THEN {KeyOf(answer.out.json[i]) : i \in DOMAIN answer.out.json}
  ELSE IF answer.op = "exportKeywords"
    THEN {<<answer.out.csv[i][1].quoted, answer.out.csv[i][7].str,
            answer.out.csv[i][8].str>> : i \in DOMAIN answer.out.csv}
  ELSE {}

\* no stored record with expires_at <= now is among the rows that
\* getCachedKeywords, searchKeywords or exportKeywords has just returned
ExpiredHidden == \A r \in keywords : Expired(r) => KeyOf(r) \notin AnswerKeys

\* statement q of getStats runs in this step
StatsRuns(q) ==
  statsTodo # <<>> /\ Head(statsTodo) = q /\ statsTodo' = Tail(statsTodo)

\* the count getStats will report for statement q, after this step
StatsCount(q) ==
  IF Tail(statsTodo) = <<>>
  THEN (IF q = "expired" THEN answer'.stats.expired_entries
        ELSE answer'.stats.total_keywords)
  ELSE stats'[q]

\* the statements of getStats count the expired records: expired_entries is
\* the number of stored records with expires_at <= now, total_keywords the
\* number of all stored records
ExpiredCounted ==
  /\ StatsRuns("expired") =>
       StatsCount("expired") = Cardinality({r \in keywords : Expired(r)})
  /\ StatsRuns("total") => StatsCount("total") = Cardinality(keywords)

\* a step takes an expired record's row out of the table only when it is a
\* clearCache; an upsert of its key rewrites the row, anything else leaves it
ExpiredKept ==
  \A r \in keywords : Expired(r) =>
    \/ r \in keywords'
    \/ \E x \in keywords' : KeyOf(x) = KeyOf(r) /\ x.fetched_at = now
    \/ answer'.op = "clearCache"

\* C10: a keyword record with expires_at <= now is never returned by
\* getCachedKeywords, searchKeywords or exportKeywords; it stays stored, and
\* counted in getStats' expired_entries and total_keywords, until a clearCache
\* removes it (or an upsert of its key renews it).
C10_ExpiredHiddenKeptCounted ==
  []ExpiredHidden /\ [][ExpiredCounted /\ ExpiredKept]_vars

C10_Witness ==
  /\ answer.op = "searchKeywords" /\ Len(answer.rows) = 1
  /\ Cardinality(keywords) = 2
  /\ \E r \in keywords :
       /\ Expired(r)
       /\ r.location = answer.rows[1].location
       /\ r.language = answer.rows[1].language

\* ---------------------------------------------------------------- C11
WRITTEN == {"keywords", "keyword_rankings", "domains"}

\* the rows of a written table among the three given
RowsOf(table, kws, rks, dms) ==
  IF table = "keywords" THEN kws
  ELSE IF table = "keyword_rankings" THEN rks
  ELSE dms

\* the identity key of a row or statement of a table (the UNIQUE constraint)
IdentityKey(table, r) ==
  IF table = "keywords" THEN <<r.keyword, r.location, r.language>>
  ELSE IF table = "keyword_rankings"
    THEN <<r.keyword, r.domain, r.location, r.language>>
  ELSE <<r.domain, r.location, r.language>>

OneRowPerKey ==
  \A table \in WRITTEN :
    \A r1, r2 \in RowsOf(table, keywords, keyword_rankings, domains) :
      IdentityKey(table, r1) = IdentityKey(table, r2) => r1 = r2

\* the step is a store call of the write under way that the store applied
StoreApplied ==
  /\ batch.state = "running"
  /\ batch'.state \in {"running", "returned"}
  /\ Len(batch'.issued) = Len(batch.issued) + 1

\* after the store applied a chunk, the table holds for each key of the chunk
\* exactly the last statement of the chunk for that key, stamped with the
\* time of the call; rows of other keys and the other tables are as before
LastWriteWins ==
  StoreApplied =>
    LET table == batch.table
        chunk == Head(batch.todo)
        before == RowsOf(table, keywords, keyword_rankings, domains)
        after == RowsOf(table, keywords', keyword_rankings', domains')
        keys == {IdentityKey(table, chunk[i]) : i \in DOMAIN chunk}
        Last(k) == chunk[CHOOSE i \in DOMAIN chunk :
                     /\ IdentityKey(table, chunk[i]) = k
                     /\ \A j \in DOMAIN chunk :
                          IdentityKey(table, chunk[j]) = k => j <= i]
    IN /\ \A k \in keys :
            {r \in after : IdentityKey(table, r) = k}
              = {Last(k) @@ ("fetched_at" :> now)}
       /\ {r \in after : IdentityKey(table, r) \notin keys}
            = {r \in before : IdentityKey(table, r) \notin keys}
       /\ \A other \in WRITTEN \ {table} :
            RowsOf(other, keywords', keyword_rankings', domains')
              = RowsOf(other, keywords, keyword_rankings, domains)

\* C11: after any sequence of upserts each table holds at most one row per
\* identity key, and every applied upsert leaves for its key exactly its own
\* values, fetched_at and expires_at: nothing of an older write survives.
C11_LastWriteWins == []OneRowPerKey /\ [][LastWriteWins]_vars

\* a write call whose chunk names a key twice, with different columns, has
\* been applied after time has passed: the row is the later statement's
C11_Witness ==
  /\ batch.state = "returned" /\ batch.calls = 2
  /\ batch.table = "keywords" /\ Len(batch.statements) = 2
  /\ batch.statements[1].keyword = batch.statements[2].keyword
  /\ \E r \in keywords :
       /\ r.keyword = "a" /\ r.location = batch.statements[1].location
       /\ r.fetched_at = TTL_KEYWORD_DATA
       /\ Has(batch.statements[1], "monthly_searches")
       /\ Has(r, "intent") /\ ~Has(r, "monthly_searches")

\* ---------------------------------------------------------------- C12
\* the TTL class of a written table
TTLOf(table) ==
  IF table = "keywords" THEN TTL_KEYWORD_DATA
  ELSE IF table = "keyword_rankings" THEN TTL_RANKINGS
  ELSE TTL_DOMAIN_OVERVIEW

\* C12, as stated: every stored record has expires_at = fetched_at + the TTL
\* of its class, also when its statement was prepared before the store ran it
C12_AsStated ==
  \A table \in WRITTEN :
    \A r \in RowsOf(table, keywords, keyword_rankings, domains) :
      r.expires_at = r.fetched_at + TTLOf(table)

\* ---------------------------------------------------------------- C13
RECURSIVE Concat(_)
Concat(chunks) ==
  IF chunks = <<>> THEN <<>> ELSE Head(chunks) \o Concat(Tail(chunks))

\* a batched write has been called and has not yet handed back control
InBatch ==
  /\ batch.state # "idle"
  /\ batch.table \in {"keywords", "keyword_rankings"}

\* the items of the call that have a keyword under either name, in order
Resolvable ==
  SelectSeq(batch.items,
            LAMBDA item : \/ Has(item, "kw") /\ item.kw # ""
                          \/ Has(item, "keyword") /\ item.keyword # "")

CeilDiv(n, d) == (n + d - 1) \div d

\* the store calls issued so far and those the loop still has to make are the
\* statements of the resolvable items, in item order, in ceil(n/50) chunks
ChunkedInOrder ==
  LET wanted == [i \in DOMAIN Resolvable |-> ItemKeyword(Resolvable[i])]
      n == Len(wanted)
      calls == batch.issued \o batch.todo
      sent == Concat(calls)
      stored == {r.keyword : r \in RowsOf(batch.table, keywords,
                                          keyword_rankings, domains)}
  IN /\ \A i \in DOMAIN calls : Len(calls[i]) \in 1..CHUNK_SIZE
     /\ [i \in DOMAIN sent |-> sent[i].keyword] = wanted
     /\ batch.failed = <<>> => Len(calls) = CeilDiv(n, CHUNK_SIZE)
     /\ batch.state = "returned" =>
          /\ Len(batch.issued) = CeilDiv(n, CHUNK_SIZE)
          /\ Range(wanted) \subseteq stored
          /\ Cardinality(Range(wanted)) = n =>
               Cardinality(RowsOf(batch.table, keywords, keyword_rankings,
                                  domains)) = n
     /\ n = 0 => batch.state = "returned" /\ batch.issued = <<>>

\* C13: upsertKeywordBatch and upsertRankingBatch write the n items that have
\* a keyword in exactly ceil(n/50) store calls of at most 50 statements each,
\* issued one after another in item order; when all succeed and the keys are
\* distinct all n rows are present; with n = 0 no store call is issued.
C13_Chunked == InBatch => ChunkedInOrder

\* 120 keyed items went out as 50, 50 and 20 and left 120 rows
C13_Witness ==
  /\ InBatch /\ batch.state = "returned" /\ batch.table = "keywords"
  /\ Len(batch.items) = 120 /\ Len(Resolvable) = 120
  /\ [i \in DOMAIN batch.issued |-> Len(batch.issued[i])] = <<50, 50, 20>>
  /\ Cardinality(keywords) = 120

\* ---------------------------------------------------------------- C14
\* the statements of the call outside the chunk that failed
OutsideFailed ==
  Range(batch.statements) \ Range(Concat(batch.failed))

\* C14, as stated: when one chunk of a batched upsert fails, the entities of
\* every other chunk of the call, before and after it, are still written.
C14_AsStated ==
  InBatch /\ batch.state = "threw" =>
    \A statement \in OutsideFailed :
      \E r \in RowsOf(batch.table, keywords, keyword_rankings, domains) :
        IdentityKey(batch.table, r) = IdentityKey(batch.table, statement)

\* ---------------------------------------------------------------- C15
\* the keyword a resolvable item supplies
Supplied(item) ==
  IF Has(item, "kw") /\ item.kw # "" THEN item.kw ELSE item.keyword

\* every resolvable item has its statement, in item order, under the keyword
\* it supplies; all of them are sent unless the store rejects a call, which
\* is the only way the method throws
AllKeyedSent ==
  InBatch /\ batch.table = "keywords" =>
    /\ Len(batch.statements) = Len(Resolvable)
    /\ \A i \in DOMAIN batch.statements :
         batch.statements[i].keyword = Supplied(Resolvable[i])
    /\ batch.state = "threw" => batch.failed # <<>>
    /\ batch.state = "returned" => Concat(batch.issued) = batch.statements
    /\ \A r \in keywords : r.keyword # ""

\* a store call that is applied leaves a row under the key of each statement
\* it carries
SentIsWritten ==
  StoreApplied /\ batch.table = "keywords" =>
    \A statement \in Range(Head(batch.todo)) :
      \E r \in keywords' : SameKeywordKey(r, statement)

\* C15: upsertKeywordBatch drops every item that has neither a non-empty `kw`
\* nor a non-empty `keyword`, without an error (it throws only when the store
\* rejects a call), and still writes every other item of the batch, whichever
\* of the two fields names its keyword.
C15_DropsUnkeyed == []AllKeyedSent /\ [][SentIsWritten]_vars

\* a batch of an item without a keyword and an item keyed by `keyword` has
\* returned: one statement, and the row of the second item is stored
C15_Witness ==
  /\ InBatch /\ batch.table = "keywords" /\ batch.state = "returned"
  /\ batch.items = <<Unkeyed, AltItem>>
  /\ Len(batch.statements) = 1 /\ Len(batch.issued) = 1
  /\ \E r \in keywords : r.keyword = "b" /\ r.search_volume = 5

\* ---------------------------------------------------------------- C16
\* the params name a table that is none of the four
NamesUnknownTable(ps) ==
  /\ Has(ps, "table") /\ ps.table # ""
  /\ ps.table \notin {"keywords", "keyword_rankings", "domains", "search_logs"}

\* C16: clearCache called with a table name outside {keywords,
\* keyword_rankings, domains, search_logs} fails with an error and deletes
\* nothing: all four tables are unchanged.
C16_UnknownTable ==
  [][\A ps \in ClearParams :
       NamesUnknownTable(ps) /\ SvcClearCache(ps) =>
         /\ Has(answer', "error")
         /\ keywords' = keywords /\ keyword_rankings' = keyword_rankings
         /\ domains' = domains /\ search_logs' = search_logs]_vars

\* clearCache has failed on an unknown table while tables held rows
C16_Witness ==
  /\ answer.op = "clearCache" /\ Has(answer, "error")
  /\ keywords # {} /\ keyword_rankings # {} /\ search_logs # <<>>

\* ---------------------------------------------------------------- C17
\* the table the params name, keywords when they name none
Named(ps) == IF Has(ps, "table") /\ ps.table # "" THEN ps.table ELSE "keywords"

\* row r of the named table matches the filter of the params, as far as the
\* table has the columns: keywords and keyword_rankings by location, language
\* and keyword substring, domains by location and language
MatchesFilter(r, ps) ==
  /\ Has(ps, "location") /\ ps.location # "" => r.location = ps.location
  /\ Has(ps, "language") /\ ps.language # "" => r.language = ps.language
  /\ Has(ps, "keyword_like") /\ ps.keyword_like # "" /\ Has(r, "keyword") =>
       Like(r.keyword, ps.keyword_like)

\* the rows of the named record table that a clear has to delete
ToDelete(ps) ==
  {r \in RowsOf(Named(ps), keywords, keyword_rankings, domains) :
     MatchesFilter(r, ps)}

ClearedExactly(ps) ==
  LET table == Named(ps)
  IN /\ answer'.op = "clearCache"
     \* search_logs has none of the filter columns: all its rows go (two log
     \* rows with the same content are two rows)
     /\ table = "search_logs" =>
          /\ search_logs' = <<>> /\ answer'.deleted = Len(search_logs)
          /\ keywords' = keywords /\ keyword_rankings' = keyword_rankings
          /\ domains' = domains
     /\ table # "search_logs" =>
          /\ answer'.deleted = Cardinality(ToDelete(ps))
          /\ RowsOf(table, keywords', keyword_rankings', domains')
               = RowsOf(table, keywords, keyword_rankings, domains)
                   \ ToDelete(ps)
          /\ \A other \in WRITTEN \ {table} :
               RowsOf(other, keywords', keyword_rankings', domains')
                 = RowsOf(other, keywords, keyword_rankings, domains)
          /\ search_logs' = search_logs

C18_AsStated ==
  /\ answer.op \in {"searchKeywords", "searchRankings"} =>
       Len(answer.rows) <= 500
  /\ answer.op = "exportKeywords" => Len(answer.rows) <= 1000

\* ---------------------------------------------------------------- C19
\* the list a monthly series has to come back as: a list as it is, a map as
\* its values in descending order of their year-month keys
RoundTrip(monthly) ==
  IF monthly.t = "list" THEN monthly.v
  ELSE LET m == monthly.v
           order == CHOOSE s \in [DOMAIN m -> DOMAIN m] :
                      \A i, j \in DOMAIN m :
                        i < j => LexLess(m[s[j]][1], m[s[i]][1])
       IN [i \in DOMAIN m |-> m[order[i]][2]]

\* the series that was upserted under a keyword
Upserted(kw) == SearchVolumeItem(kw).monthly

\* C19, as stated: an item upserted with `monthly` as an ordered list and read
\* back from the cache yields the same list; one upserted with a year-month
\* map yields the list of its values in descending order of the keys.  Read
\* back means by the lookup whose records parseCachedMonthly decodes, by
\* searchKeywords and by the JSON export.
C19_AsStated ==
  /\ answer.op = "getCachedKeywords" =>
       \A kw \in DOMAIN answer.map :
         Has(answer.map[kw], "monthly_searches") =>
           parseCachedMonthly(answer.map[kw]) = RoundTrip(Upserted(kw))
  /\ answer.op = "searchKeywords" =>
       \A i \in DOMAIN answer.rows :
         Has(answer.rows[i], "monthly") =>
           answer.rows[i].monthly = List(RoundTrip(Upserted(answer.rows[i].kw)))
  /\ answer.op = "exportKeywords" /\ Has(answer.out, "json") =>
       \A i \in DOMAIN answer.out.json :
         Has(answer.out.json[i], "monthly_searches") =>
           answer.out.json[i].monthly_searches
             = List(RoundTrip(Upserted(answer.out.json[i].keyword)))

\* ---------------------------------------------------------------- C20
\* what the caller of a tool holds is a text result, never a thrown error
NothingCrosses ==
  answer.op \in TOOLS =>
    /\ ~Has(answer, "thrown")
    /\ Has(answer, "content") /\ Len(answer.content) = 1
    /\ answer.content[1].type = "text"

\* the step belongs to a tool handler: its service call starts, goes on or
\* ends, or the handler returns
ToolStep == answer' # answer \/ statsTodo' # statsTodo \/ stats' # stats

\* no table is modified and upstream is not called
NoEffect ==
  /\ keywords' = keywords /\ keyword_rankings' = keyword_rankings
  /\ domains' = domains /\ search_logs' = search_logs
  /\ upstreamCalls' = upstreamCalls

\* an error the service threw comes back as a text that begins with "Error:"
ErrorAsText ==
  answer.op \in SERVICE_READS /\ Has(answer, "thrown") /\ answer' # answer =>
    /\ answer'.op = ToolOf(answer.op)
    /\ Has(answer', "content")
    /\ answer'.content[1].text.begins = "Error:"

\* C20: the cache query tools (cache_search, cache_stats, cache_export) never
\* call upstream and never let an exception cross the tool boundary: an error
\* raised by the Cache Service is returned as a text result beginning with
\* "Error:"; and they never modify a table.
C20_ToolsReadOnly ==
  []NothingCrosses /\ [][(ToolStep => NoEffect) /\ ErrorAsText]_vars

\* cache_stats has returned the text of an error that was no Error object,
\* raised while the cache held keyword and ranking rows
C20_Witness ==
  /\ answer.op = "cache_stats"
  /\ answer.content[1].text
       = [begins |-> "Error:", message |-> "Unknown error"]
  /\ keywords # {} /\ keyword_rankings # {}
  /\ \A p \in Procs : upstreamCalls[p] = <<>>

\* ---------------------------------------------------------------- C21
\* the search-volume handler was called with an empty or absent keyword list
Bypassing(p) == IsSearchVolume(p) /\ Kws(p) = <<>>

\* the invocation has looked nothing up, written nothing and logged nothing
NoCacheUse(p) ==
  /\ cachedMap[p] = NoMap /\ ~lookupFailed[p] /\ liveAtLookup[p] = {}
  /\ ~Has(stamp[p], "looked")
  /\ queue[p] = <<>> /\ wrote[p] = {} /\ ~storeFailed[p]
  /\ logged[p] = <<>> /\ ~logFailed[p]

BypassesCache ==
  \A p \in Procs : Bypassing(p) =>
    /\ pc[p] \in {"bypass", "done", "failed"}
    /\ upstreamCalls[p] = <<params[p]>>
    /\ NoCacheUse(p)
    /\ pc[p] = "done" =>
         response[p] = result[p] /\ result[p] \in UpstreamResults
    /\ pc[p] = "failed" => response[p] = [error |-> "upstream"]

\* a step of a bypassing invocation leaves the four tables as they are
BypassTouchesNothing ==
  \A p \in Procs : Bypassing(p) /\ pc'[p] # pc[p] => UNCHANGED tables

\* C21: when the search-volume handler is called with an empty or absent
\* keyword list it bypasses the cache entirely: it calls upstream with the
\* original parameters and returns its result, with no cache lookup, no cache
\* write and no log entry.
C21_Bypass == []BypassesCache /\ [][BypassTouchesNothing]_vars

\* a call without a keyword list has returned the items upstream gave, while
\* the cache holds a record another tool wrote
C21_Witness ==
  /\ Bypassing(1) /\ ~Has(params[1], "keywords") /\ pc[1] = "done"
  /\ response[1] = result[1] /\ extractParsedItems(result[1]) # <<>>
  /\ keywords # {} /\ search_logs = <<>>

\* ---------------------------------------------------------------- C22
\* row r carries the values upsertKeyword was given in data
HasWritten(r, data) ==
  /\ r.search_volume
       = (IF Has(data, "search_volume") THEN data.search_volume ELSE 0)
  /\ \A col \in {"cpc", "competition", "intent", "keyword_difficulty"} :
       /\ Has(r, col) <=> Has(data, col)
       /\ Has(r, col) => r[col] = data[col]
  /\ Has(r, "monthly_searches") <=> Has(data, "monthly_searches")
  /\ Has(r, "monthly_searches") =>
       JSONParse(r.monthly_searches) = data.monthly_searches

\* the lookup made right after an upsert, with the same keyword, location and
\* language, finds the record with the values written
UpsertThenLookup ==
  \A key \in UpsertKeys, data \in KeywordData :
    SvcUpsertKeyword(key[1], key[2], data, "google_ads") =>
      LET got == GetCachedKeywords(keywords', now', <<key[1]>>, key[2][1],
                                   key[2][2])
      IN /\ DOMAIN got = {key[1]}
         /\ got[key[1]].keyword = key[1]
         /\ got[key[1]].location = key[2][1]
         /\ got[key[1]].language = key[2][2]
         /\ got[key[1]].source = "google_ads"
         /\ HasWritten(got[key[1]], data)

\* a lookup answers with a map, never an error; a requested keyword is in the
\* map when the table holds a live record of it under the requested location
\* and language, and that record is what the map gives; every other keyword
\* (absent, expired, stored under another location or language) is left out
LookupOmits ==
  \A kws \in LookupKeywords, lg \in LookupLocales :
    SvcGetCachedKeywords(kws, lg) =>
      /\ DOMAIN answer' = {"op", "map"}
      /\ \A kw \in SvcKW :
           LET live == {r \in keywords : /\ r.keyword = kw
                                         /\ r.location = lg[1]
                                         /\ r.language = lg[2]
                                         /\ now < r.expires_at}
           IN IF kw \in Range(kws) /\ live # {}
              THEN kw \in DOMAIN answer'.map /\ answer'.map[kw] \in live
              ELSE kw \notin DOMAIN answer'.map
      /\ DOMAIN answer'.map \subseteq SvcKW

\* C22: after a keyword upsert for (keyword, location, language) an immediate
\* getCachedKeywords for that keyword with the same location and language
\* returns a map containing the record with the written values; a lookup with
\* a different location or language, or for an absent or expired keyword,
\* leaves the keyword out of the map and raises no error.
C22_UpsertLookup == [][UpsertThenLookup /\ LookupOmits]_vars

\* a lookup of "a" and "b" has just returned the record of "a" written at
\* this moment with search_volume 1200, and not the expired record of "b";
\* "a" is stored under another location too
C22_Witness ==
  /\ answer.op = "getCachedKeywords" /\ DOMAIN answer.map = {"a"}
  /\ answer.map["a"].search_volume = 1200
  /\ answer.map["a"].fetched_at = now
  /\ answer.map["a"].location = "US" /\ answer.map["a"].language = "en"
  /\ \E r \in keywords : r.keyword = "b" /\ r.expires_at <= now
  /\ \E r \in keywords : r.keyword = "a" /\ r.location = "FI"
  /\ \E r \in keywords : r.keyword = "a" /\ r.language = "fi"

\* ---------------------------------------------------------------- C23
\* the row of table keywords without the column the store fills in
AsBound(r) == [c \in DOMAIN r \ {"fetched_at"} |-> r[c]]

\* the statement invocation p bound for the keyword: the last upstream item of
\* the keyword, with the expiry of the time upstream returned
BoundBy(p, kw) ==
  KeywordStatement(LastUpstreamItem(p, kw), ParamLocation(params[p]),
                   ParamLanguage(params[p]), "google_ads", stamp[p].fetched)

\* invocation p is over and its upsert of the keyword was applied
AppliedUpsert(p, kw) ==
  /\ IsSearchVolume(p) /\ pc[p] = "done" /\ "keywords" \in wrote[p]
  /\ UpstreamGave(p, kw)

\* both invocations are over and each has upserted "a": the table holds one
\* row under the key, and it is whole what one of the two bound
OneWholeRecord ==
  AppliedUpsert(1, "a") /\ AppliedUpsert(2, "a") =>
    LET under == {r \in keywords : /\ r.keyword = "a" /\ r.location = "US"
                                   /\ r.language = "en"}
    IN /\ Cardinality(under) = 1
       /\ \A r \in under : AsBound(r) \in {BoundBy(1, "a"), BoundBy(2, "a")}

\* an invocation fails only when its own upstream call throws, and returns
\* what it returns when it runs alone
NeitherFails ==
  \A p \in Procs :
    /\ pc[p] = "failed" =>
         response[p] = [error |-> "upstream"] /\ result[p] = NoResult
    /\ pc[p] = "done" => response[p] = ResponseOfSuccess(p)

\* the store applies a chunk: afterwards the one row under the key of each
\* statement is the row of that statement, whatever was there before
LaterWins ==
  \A p \in Procs : SVStoreChunk(p) =>
    LET chunk == Head(queue[p])
    IN \A i \in DOMAIN chunk :
         (\A j \in DOMAIN chunk : j > i => ~SameKeywordKey(chunk[j], chunk[i]))
         => {r \in keywords' : SameKeywordKey(r, chunk[i])}
              = {chunk[i] @@ ("fetched_at" :> now)}

\* C23: when two search-volume invocations for the same (keyword, location,
\* language) interleave between their lookup and their store, neither fails
\* because of the other, and after both finish the store holds exactly one
\* record for the key, equal to the record written by the later-applied
\* upsert, with no mix of fields from the two writes.
C23_LaterUpsertWins ==
  []NeitherFails /\ []OneWholeRecord /\ [][LaterWins]_vars

\* both invocations looked up "a" before either had stored it, upstream gave
\* them different snapshots, both stored, and the row is the second's
C23_Witness ==
  /\ AppliedUpsert(1, "a") /\ AppliedUpsert(2, "a") /\ now = 0
  /\ ~lookupFailed[1] /\ ~lookupFailed[2]
  /\ liveAtLookup[1] = {} /\ liveAtLookup[2] = {}
  /\ LastUpstreamItem(1, "a") = SearchVolumeItem("a")
  /\ LastUpstreamItem(2, "a") = [kw |-> "a", vol |-> 7]
  /\ \E r \in keywords : r.keyword = "a" /\ AsBound(r) = BoundBy(2, "a")

\* ---------------------------------------------------------------- C24
\* the log rows of the search-volume tool are those its invocations appended
LogRowsAccounted ==
  \A i \in DOMAIN search_logs :
    search_logs[i].tool_name = SEARCH_VOLUME_TOOL =>
      \E p \in Procs : IsSearchVolume(p) /\ search_logs[i] \in Range(logged[p])

HitMeansNoUpstream ==
  \A p \in Procs : IsSearchVolume(p) =>
    /\ Len(logged[p]) <= 1
    /\ \A i \in DOMAIN logged[p] :
         /\ logged[p][i].cache_hit \in {0, 1}
         /\ logged[p][i].cache_hit = 1 => upstreamCalls[p] = <<>>
         /\ upstreamCalls[p] # <<>> => logged[p][i].cache_hit = 0

\* C24: a search-volume log entry carries cache_hit = true only if no
\* upstream call was made in the invocation that wrote it; the entry of an
\* invocation that called upstream (partial hit or full miss) has
\* cache_hit = false; and an invocation appends at most one log entry.
C24_CacheHitFlag == LogRowsAccounted /\ HitMeansNoUpstream

\* a partial hit has called upstream for the missing keyword and logged one
\* row, with cache_hit = false
C24_Witness ==
  /\ pc[1] = "done" /\ PartialHit(1) /\ Len(upstreamCalls[1]) = 1
  /\ LoggedOnce(1, 0)

\* ---------------------------------------------------------------- C25
\* row r satisfies every filter the params supply
Satisfies(r, ps) ==
  /\ Has(ps, "keywords") /\ ps.keywords # <<>> =>
       r.keyword \in Range(ps.keywords)
  /\ Has(ps, "keyword_like") => Like(r.keyword, ps.keyword_like)
  /\ Has(ps, "min_volume") => r.search_volume >= ps.min_volume
  /\ Has(ps, "max_volume") => r.search_volume <= ps.max_volume
  /\ Has(ps, "competition") =>
       Has(r, "competition") /\ r.competition = ps.competition
  /\ Has(ps, "intent") => Has(r, "intent") /\ r.intent = ps.intent
  /\ Has(ps, "location") => r.location = ps.location
  /\ Has(ps, "language") => r.language = ps.language

\* the column of the allow-list the params ask for, volume when they ask for
\* none or for a name outside the list
AllowedColumn(ps) ==
  IF Has(ps, "sort_by") /\ ps.sort_by = "cpc" THEN "cpc"
  ELSE IF Has(ps, "sort_by") /\ ps.sort_by = "difficulty"
    THEN "keyword_difficulty"
  ELSE IF Has(ps, "sort_by") /\ ps.sort_by = "fetched_at" THEN "fetched_at"
  ELSE "search_volume"

\* the stored row a returned row was made from
Behind(row) ==
  CHOOSE r \in keywords : /\ r.keyword = row.kw /\ r.location = row.location
                          /\ r.language = row.language

\* the call answers with rows: each a live stored row that satisfies the
\* filters, in the order of the allowed column, descending unless the params
\* say 'asc'
SearchAsClaimed(ps) ==
  /\ Has(answer', "rows")
  /\ \A i \in DOMAIN answer'.rows :
       \E r \in keywords :
         /\ r.keyword = answer'.rows[i].kw
         /\ r.location = answer'.rows[i].location
         /\ r.language = answer'.rows[i].language
         /\ r.search_volume = answer'.rows[i].vol
         /\ now < r.expires_at
         /\ Satisfies(r, ps)
  /\ \A i, j \in DOMAIN answer'.rows : i < j =>
       IF Has(ps, "sort_order") /\ ps.sort_order = "asc"
       THEN ~ColumnLess(Behind(answer'.rows[j]), Behind(answer'.rows[i]),
                        AllowedColumn(ps))
       ELSE ~ColumnLess(Behind(answer'.rows[i]), Behind(answer'.rows[j]),
                        AllowedColumn(ps))

\* C25 as stated: searchKeywords returns only live rows that satisfy every
\* supplied filter (exact keywords, substring, volume range, competition,
\* intent, location, language), ordered by a column of the allow-list
\* {volume, cpc, difficulty, fetched_at}: an absent or unrecognized sort_by
\* sorts by volume, and any sort_order other than 'asc' sorts descending.
C25_AsStated ==
  [][\A ps \in SearchCases : SvcSearchKeywords(ps) => SearchAsClaimed(ps)]_vars

\* ---------------------------------------------------------------- C26
\* the stored series of record r is no series: NULL, a text that does not
\* parse, an empty list, an empty map, or a JSON value that is no object
NoSeries(r) ==
  \/ ~Has(r, "monthly_searches")
  \/ r.monthly_searches.json \notin {"array", "object"}
  \/ r.monthly_searches.json = "array" /\ r.monthly_searches.elems = <<>>
  \/ r.monthly_searches.json = "object" /\ r.monthly_searches.members = <<>>

\* the i-th item of the response is served from the cache
ServedFromCache(p, i) ==
  /\ LookedUp(p) /\ ~lookupFailed[p]
  /\ pc[p] \in {"log_hit", "log_merge", "done"}
  /\ Kws(p)[i] \in LiveKeywords(p)
  /\ ~(UpstreamReturned(p) /\ UpstreamGave(p, Kws(p)[i]))

\* an item served from a record without a series has no monthly field, and
\* carries the keyword and the volume of the record
AbsentSeries ==
  \A p \in Procs : \A i \in DOMAIN Kws(p) :
    ServedFromCache(p, i) /\ NoSeries(RecordOf(p, Kws(p)[i])) =>
      /\ ~Has(Items(response[p])[i], "monthly")
      /\ Items(response[p])[i].kw = Kws(p)[i]
      /\ Items(response[p])[i].vol = RecordOf(p, Kws(p)[i]).search_volume

\* the request does not fail over what it finds in the cache: a full hit never
\* fails, any other request only when upstream throws
NoFailure ==
  \A p \in Procs :
    /\ FullHit(p) => pc[p] \in {"log_hit", "done"}
    /\ pc[p] = "failed" =>
         response[p] = [error |-> "upstream"] /\ result[p] = NoResult

\* C26: a stored monthly_searches value that is malformed or unparseable (or
\* null, an empty list, an empty map, or a JSON value that is no object)
\* decodes to absent: the cached item is served without a monthly field and
\* the request does not fail.
C26_MalformedSeries == AbsentSeries /\ NoFailure

\* a full hit of two keywords: the record of the first holds a text that does
\* not parse and is served without monthly, that of the second a series
C26_Witness ==
  /\ pc[1] = "done" /\ FullHit(1) /\ Kws(1) = <<"a", "b">>
  /\ Has(RecordOf(1, "a"), "monthly_searches")
  /\ RecordOf(1, "a").monthly_searches.json = "invalid"
  /\ ~Has(Items(response[1])[1], "monthly")
  /\ Has(Items(response[1])[2], "monthly")
  /\ Items(response[1])[2].monthly = List(<<3, 2>>)

\* ---------------------------------------------------------------- C27
\* invocation p is of a wrapped tool other than the search-volume tool
IsGeneral(p) == tool[p] # "" /\ ~IsSearchVolume(p)

CACHEABLE ==
  KEYWORD_CACHE_TOOLS \cup RANKING_CACHE_TOOLS \cup DOMAIN_CACHE_TOOLS

\* the invocation has made, or is about to make, a cache write or a log append
TouchesCache(p) ==
  \/ pc[p] = "g_store" \/ queue[p] # <<>> \/ stages[p] # <<>>
  \/ wrote[p] # {} \/ logged[p] # <<>> \/ storeFailed[p] \/ logFailed[p]

FetchThenStore ==
  \A p \in Procs : IsGeneral(p) =>
    /\ upstreamCalls[p] = <<params[p]>>
    /\ cachedMap[p] = NoMap /\ ~lookupFailed[p] /\ liveAtLookup[p] = {}
    /\ ~Has(stamp[p], "looked")
    /\ pc[p] = "done" => response[p] = result[p] /\ UpstreamReturned(p)
    /\ pc[p] = "failed" =>
         response[p] = [error |-> "upstream"] /\ ~UpstreamReturned(p)
    /\ TouchesCache(p) =>
         /\ tool[p] \in CACHEABLE
         /\ UpstreamReturned(p) /\ extractParsedItems(result[p]) # <<>>
    /\ \A i \in DOMAIN logged[p] :
         logged[p][i].cache_hit = 0 /\ logged[p][i].tool_name = tool[p]

\* a step of such an invocation changes a table only by a store call of its
\* cacheResult
GeneralWritesInStore ==
  \A p \in Procs :
    IsGeneral(p) /\ pc'[p] # pc[p] /\ pc[p] # "g_store" => UNCHANGED tables

\* C27: for every wrapped tool other than the search-volume tool, each
\* invocation calls upstream exactly once with the unmodified parameters,
\* never reads the cache, and returns the upstream result unchanged; cache
\* writes and a log entry (cache_hit = false) are attempted only when the tool
\* is in a cacheable set and the result carries at least one item.
C27_GeneralPath == []FetchThenStore /\ [][GeneralWritesInStore]_vars

\* a ranked-keywords invocation has returned the upstream result after
\* writing keyword and ranking rows and one log row
C27_Witness ==
  /\ pc[1] = "done" /\ tool[1] = RANKED_KEYWORDS_TOOL
  /\ response[1] = result[1] /\ Len(extractParsedItems(result[1])) = 2
  /\ wrote[1] = {"keywords", "keyword_rankings"}
  /\ LoggedOnce(1, 0)

\* ------------------------------------------------------------------ C28
\* the live ranking records of the searched domain under the given filters
LiveRankings(ps) ==
  {kr \in keyword_rankings :
     /\ kr.domain = ps.domain
     /\ kr.expires_at > now
     /\ (Has(ps, "location") /\ ps.location # "") => kr.location = ps.location
     /\ (Has(ps, "language") /\ ps.language # "") => kr.language = ps.language}
\* a ranking record with no keyword record of its keyword, location, language
Orphan(kr) ==
  ~\E k \in keywords : /\ k.keyword = kr.keyword
                       /\ k.location = kr.location
                       /\ k.language = kr.language
RankingLimit(ps) == IF Has(ps, "limit") THEN ps.limit ELSE 50
\* clearing the keywords table leaves the two other tables as they were
NoCascade ==
  \A ps \in ClearParams :
    (Named(ps) = "keywords" /\ SvcClearCache(ps)) =>
      /\ keyword_rankings' = keyword_rankings
      /\ domains' = domains
\* searchRankings returns every live ranking record of the domain up to its
\* limit, with or without a keyword record; those without come back with no
\* keyword and no volume
OrphansReturned ==
  \A ps \in RankingParams :
    SvcSearchRankings(ps) =>
      LET live == LiveRankings(ps)
          rows == answer'.rows
      IN /\ Len(rows) = Min(Cardinality(live), RankingLimit(ps))
         /\ Cardinality(live) <= RankingLimit(ps) =>
              Cardinality({i \in DOMAIN rows : ~Has(rows[i], "kw")})
                = Cardinality({kr \in live : Orphan(kr)})

\* C28: clearCache on the keywords table changes neither keyword_rankings nor
\* domains, and searchRankings still returns the ranking records whose
\* keyword record is gone
C28_NoCascade == [][NoCascade /\ OrphansReturned]_vars

\* the first invocation wrote the keyword record and the ranking record of
\* "a"; the keyword record has been cleared, a domain record is stored, and
\* searchRankings has returned the ranking
C28_Witness ==
  /\ "keywords" \in wrote[1]
  /\ domains # {}
  /\ \E kr \in keyword_rankings : kr.keyword = "a" /\ Orphan(kr)
  /\ Has(answer, "op") /\ answer.op = "searchRankings"
  /\ \E i \in DOMAIN answer.rows :
       /\ ~Has(answer.rows[i], "kw")
       /\ Has(answer.rows[i], "pos") /\ answer.rows[i].pos = 3

\* ------------------------------------------------------------------ C29
\* the fields of the compact wire keyword item
WIRE_FIELDS == {"kw", "vol", "cpc", "comp", "intent", "kd", "monthly"}
\* the item the first invocation gave upsertKeywordBatch for a keyword
WrittenItems(kw) ==
  LET items == extractParsedItems(result[1])
  IN {items[j] : j \in {j \in DOMAIN items :
                          Has(items[j], "kw") /\ items[j].kw = kw}}
\* two items carry the same value, or both none, in a field
SameField(x, y, f) ==
  /\ Has(x, f) <=> Has(y, f)
  /\ Has(x, f) /\ Has(y, f) =>
       IF f = "monthly"
       THEN x[f].t = y[f].t /\ x[f].v = y[f].v
       ELSE x[f] = y[f]
\* what the second invocation serves from the cache equals, in the given
\* fields, what the first one wrote
RoundTrips(fields) ==
  pc[2] = "done" /\ "keywords" \in wrote[1] =>
    \A i \in DOMAIN Kws(2) :
      ServedFromCache(2, i) =>
        \A w \in WrittenItems(Kws(2)[i]) :
          \A f \in fields : SameField(Items(response[2])[i], w, f)

\* C29: an item written by upsertKeywordBatch and later served from cache by
\* the search-volume handler carries the same kw, vol, cpc, comp, intent, kd
\* and monthly as the item written
C29_AsStated == RoundTrips(WIRE_FIELDS)

\* ------------------------------------------------------------------ C30
\* the filters the params give, each alone
LocationOK(r, ps) ==
  (Has(ps, "location") /\ ps.location # "") => r.location = ps.location
LanguageOK(r, ps) ==
  (Has(ps, "language") /\ ps.language # "") => r.language = ps.language
KeywordOK(r, ps) ==
  (Has(ps, "keyword_like") /\ ps.keyword_like # "") =>
    Like(r.keyword, ps.keyword_like)
\* keyword_like is the only filter of the params
OnlyKeywordLike(ps) ==
  /\ Has(ps, "keyword_like") /\ ps.keyword_like # ""
  /\ ~Has(ps, "location") /\ ~Has(ps, "language")
\* the rows that stay when those passing all three filters are deleted
Surviving(rows, ps) ==
  {r \in rows : ~(LocationOK(r, ps) /\ LanguageOK(r, ps) /\ KeywordOK(r, ps))}

\* on search_logs every row goes, whatever the filters
LogsGoWhole(ps) == search_logs' = <<>>
\* on domains the keyword substring plays no part
DomainsByLocale(ps) ==
  /\ domains' = {d \in domains : ~(LocationOK(d, ps) /\ LanguageOK(d, ps))}
  /\ OnlyKeywordLike(ps) => domains' = {}
\* on keywords and keyword_rankings the three filters are taken together
Conjunction(ps) ==
  /\ Named(ps) = "keywords" => keywords' = Surviving(keywords, ps)
  /\ Named(ps) = "keyword_rankings" =>
       keyword_rankings' = Surviving(keyword_rankings, ps)
\* without a table name the table cleared is keywords, and only it
AbsentIsKeywords(ps) ==
  /\ keywords' = Surviving(keywords, ps)
  /\ UNCHANGED <<keyword_rankings, domains, search_logs>>

FiltersAsStated(ps) ==
  /\ Named(ps) = "search_logs" => LogsGoWhole(ps)
  /\ Named(ps) = "domains" => DomainsByLocale(ps)
  /\ Named(ps) \in {"keywords", "keyword_rankings"} => Conjunction(ps)
  /\ ~Has(ps, "table") => AbsentIsKeywords(ps)

FiguresConsistent(s) ==
  /\ s.without_volume >= 0
  /\ s.with_volume + s.without_volume = s.total_keywords
  /\ s.expired_entries <= s.total_keywords

\* C31, as stated: whatever upserts and clears fall between the reads of
\* getStats, the figures it reports are consistent: without_volume >= 0,
\* with_volume + without_volume = total_keywords, and expired_entries <=
\* total_keywords
C31_AsStated ==
  (answer.op = "getStats" /\ Has(answer, "stats")) =>
    FiguresConsistent(answer.stats)

\* ------------------------------------------------------------------ C32
\* the invocation has made its log call, its write call
LogAttempted(p) == logged[p] # <<>> \/ logFailed[p]
WriteAttempted(p) == wrote[p] # {} \/ storeFailed[p]
\* the upstream result carries an item that has a keyword to store
HasKeyed(res) == KeywordStatements(extractParsedItems(res), "", "", "", 0) # <<>>

\* when the response is returned no store call of the invocation is pending:
\* the write and the log append that its path makes are behind it (on the
\* general path a failed write abandons cacheResult, log included)
PersistedBeforeReturn ==
  \A p \in Procs : pc[p] = "done" =>
    /\ queue[p] = <<>> /\ stages[p] = <<>>
    /\ IsSearchVolume(p) /\ ~Bypassing(p) =>
         /\ LogAttempted(p)
         /\ UpstreamReturned(p) /\ HasKeyed(result[p]) => WriteAttempted(p)
    /\ (/\ IsGeneral(p) /\ tool[p] \in CACHEABLE
        /\ extractParsedItems(result[p]) # <<>>) =>
         /\ storeFailed[p] \/ LogAttempted(p)
         /\ (tool[p] \notin DOMAIN_CACHE_TOOLS /\ HasKeyed(result[p])) =>
              WriteAttempted(p)

\* the steps come in the order lookup, upstream call, store, log, return
StepsInOrder ==
  \A p \in Procs :
    /\ (IsSearchVolume(p) /\ upstreamCalls'[p] # upstreamCalls[p]) =>
         /\ ~Has(stamp[p], "looked") /\ Has(stamp'[p], "looked")
         /\ ~UpstreamReturned(p)
    /\ (IsSearchVolume(p) /\ ~Bypassing(p) /\ result'[p] # result[p]) =>
         /\ Has(stamp[p], "looked") /\ upstreamCalls[p] # <<>>
         /\ ~WriteAttempted(p) /\ ~LogAttempted(p)
    /\ (wrote'[p] # wrote[p] \/ storeFailed'[p] # storeFailed[p]) =>
         /\ UpstreamReturned(p) /\ ~LogAttempted(p)
         /\ pc[p] \notin Terminal
    /\ (logged'[p] # logged[p] \/ logFailed'[p] # logFailed[p]) =>
         /\ pc[p] \notin Terminal /\ pc'[p] = "done"
         /\ ~LogAttempted(p)

AtMostOnce ==
  \A p \in Procs :
    /\ Len(upstreamCalls[p]) <= 1
    /\ Len(logged[p]) <= 1
    /\ logFailed[p] => logged[p] = <<>>
\* upstream is called only by an invocation that has not called it; a store
\* call that was sent leaves the queue for good; after a failed write the
\* invocation writes no more, after a failed log append it logs no more
NothingRetried ==
  \A p \in Procs :
    /\ upstreamCalls'[p] # upstreamCalls[p] => upstreamCalls[p] = <<>>
    /\ (queue[p] # <<>> /\ queue'[p] # queue[p]) =>
         \/ queue'[p] = Tail(queue[p])
         \/ Len(queue[p]) = 1 /\ Len(stages'[p]) < Len(stages[p])
         \/ queue'[p] = <<>>
    /\ (queue[p] = <<>> /\ queue'[p] # <<>>) => result'[p] # result[p]
    /\ (storeFailed'[p] /\ ~storeFailed[p]) => queue'[p] = <<>>
    /\ storeFailed[p] =>
         storeFailed'[p] /\ wrote'[p] = wrote[p] /\ queue'[p] = <<>>
    /\ logFailed[p] => logFailed'[p] /\ logged'[p] = logged[p]

\* C33: each invocation of a wrapped handler makes at most one upstream call,
\* and each write chunk and each log append is attempted at most once:
\* nothing is retried after a failure
C33_NoRetry == []AtMostOnce /\ [][NothingRetried]_vars

\* the write of a search-volume invocation failed; it logged and returned
\* without having written
C33_Witness ==
  /\ pc[1] = "done" /\ IsSearchVolume(1)
  /\ storeFailed[1] /\ wrote[1] = {}
  /\ Len(upstreamCalls[1]) = 1 /\ Len(logged[1]) = 1

\* ------------------------------------------------------------------ C34
\* a step of an invocation after which it is a full hit: its lookup, or its
\* log append
FullHitStep(p) == pc'[p] # pc[p] /\ (FullHit(p))'
\* such a step leaves the three record tables as they are, the rows served
\* with the fetched_at and expires_at they had, and adds at most the one log
\* row of the hit
HitChangesNothing ==
  \A p \in Procs : FullHitStep(p) =>
    /\ UNCHANGED <<keywords, keyword_rankings, domains>>
    /\ \/ UNCHANGED search_logs
       \/ /\ pc[p] = "log_hit"
          /\ search_logs' = Append(search_logs, logged'[p][1])
          /\ logged'[p][1].cache_hit = 1
\* a full hit that is over has written to no table and logged once at most
HitWroteNothing ==
  \A p \in Procs : FullHit(p) =>
    /\ wrote[p] = {} /\ ~storeFailed[p] /\ upstreamCalls[p] = <<>>
    /\ Len(logged[p]) <= 1
    /\ pc[p] = "done" /\ ~logFailed[p] => Len(logged[p]) = 1

\* C34: a full cache hit in the search-volume handler leaves keywords,
\* keyword_rankings and domains unchanged and only appends one log row; it
\* renews neither fetched_at nor expires_at of the records it served, so a
\* record expires a fixed TTL after its last write however often it is read
C34_HitIsReadOnly == []HitWroteNothing /\ [][HitChangesNothing]_vars

\* the same request was a full hit twice, half a TTL after the record was
\* written, and the record served still carries the expiry of its write
C34_Witness ==
  /\ pc[1] = "done" /\ pc[2] = "done" /\ FullHit(1) /\ FullHit(2)
  /\ Len(search_logs) = 2
  /\ now = TTL_KEYWORD_DATA \div 2
  /\ \E r \in liveAtLookup[2] :
       r \in keywords /\ r.fetched_at = 0 /\ r.expires_at = TTL_KEYWORD_DATA

\* ------------------------------------------------------------------ C35
\* the envelope of a response
Envelope(res) == res.content[1].text
\* the merged response of a partial hit: success status, one item per
\* requested keyword occurrence, the placeholder where neither upstream nor
\* the cache had the keyword
MergedPerOccurrence ==
  \A p \in Procs : PartialHit(p) /\ pc[p] \in {"log_merge", "done"} =>
    LET env == Envelope(response[p]) IN
      /\ env.status = SUCCESS_STATUS
      /\ env.count = Len(Kws(p))
      /\ Len(env.items) = Len(Kws(p))
      /\ \A i \in DOMAIN Kws(p) :
           /\ env.items[i].kw = Kws(p)[i]
           /\ (~UpstreamGave(p, Kws(p)[i]) /\ Kws(p)[i] \notin LiveKeywords(p))
                => env.items[i] = [kw |-> Kws(p)[i], vol |-> 0]
\* a full miss returns what upstream returned, nothing added
MissUnpadded ==
  \A p \in Procs : FullMiss(p) /\ pc[p] = "done" => response[p] = result[p]

\* C35: on a partial hit the merged response has exactly one item per
\* requested keyword occurrence (count = length of the input list,
\* duplicates included), a requested keyword that upstream did not return and
\* that is not cached yields the placeholder {kw, vol: 0}, and the status is
\* the success code; on a full miss no placeholder is added
C35_MergedCount == MergedPerOccurrence /\ MissUnpadded

\* "a" was cached, "b" was asked for twice and upstream returned nothing of
\* it: the response has three items, two of them placeholders
C35_Witness ==
  /\ pc[1] = "done" /\ PartialHit(1) /\ Kws(1) = <<"a", "b", "b">>
  /\ ~UpstreamGave(1, "b")
  /\ Envelope(response[1]).count = 3
  /\ Envelope(response[1]).items[2] = [kw |-> "b", vol |-> 0]
  /\ Envelope(response[1]).items[3] = [kw |-> "b", vol |-> 0]

\* ------------------------------------------------------------------ C36
\* the store call at the head of the queue of p is answered in this step
Sending(p) ==
  /\ queue[p] # <<>>
  /\ <<queue'[p], stages'[p], pc'[p]>> # <<queue[p], stages[p], pc[p]>>
\* ... by a failure
Fails(p) ==
  \/ storeFailed'[p] /\ ~storeFailed[p]
  \/ logFailed'[p] /\ ~logFailed[p]
Stores(p, table) ==
  Sending(p) /\ ~Fails(p) /\ Head(queue[p]).table = table
FailsOn(p, table) ==
  Sending(p) /\ Fails(p) /\ Head(queue[p]).table = table
\* the caller is handed the upstream result
HandsOn(p) == pc'[p] = "done" /\ response'[p] = result[p]

\* ranked keywords: keyword records, then ranking records, then the log row;
\* a failed ranking write takes nothing back, logs nothing and hands the
\* upstream result on
RankedInOrder ==
  \A p \in Procs : tool[p] \in RANKING_CACHE_TOOLS =>
    /\ Stores(p, "keywords") =>
         /\ "keyword_rankings" \notin wrote[p] /\ logged[p] = <<>>
         /\ UNCHANGED <<keyword_rankings, search_logs>>
    /\ Stores(p, "keyword_rankings") =>
         /\ "keywords" \in wrote[p] /\ logged[p] = <<>>
         /\ UNCHANGED <<keywords, search_logs>>
    /\ Stores(p, "search_logs") =>
         /\ UNCHANGED <<keywords, keyword_rankings>> /\ HandsOn(p)
    /\ FailsOn(p, "keyword_rankings") =>
         /\ "keywords" \in wrote[p]
         /\ UNCHANGED <<keywords, keyword_rankings, search_logs>>
         /\ logged'[p] = <<>> /\ queue'[p] = <<>> /\ stages'[p] = <<>>
         /\ HandsOn(p)
\* no log row after a failed write
NoLogAfterFailure ==
  \A p \in Procs : IsGeneral(p) /\ storeFailed[p] =>
    logged[p] = <<>> /\ pc[p] = "done" /\ response[p] = result[p]

\* the target an item is stored under: its own, else the one of the params
Resolved(item, ps) ==
  IF Has(item, "target") /\ item.target # "" THEN item.target
  ELSE IF Has(ps, "target") THEN ps.target ELSE ""
\* the items of the result that have one, in order
WithTarget(p) ==
  SelectSeq(extractParsedItems(result[p]),
            LAMBDA item : Resolved(item, params[p]) # "")
\* how many of them are not stored yet, the one being sent included
Pending(p) ==
  Len(SelectSeq(stages[p],
                LAMBDA s : s.step = "domain"
                           /\ Resolved(s.item, params[p]) # ""))
  + (IF queue[p] # <<>> /\ Head(queue[p]).table = "domains" THEN 1 ELSE 0)
Current(p) == WithTarget(p)[Len(WithTarget(p)) - Pending(p) + 1]
Untimed(r) == [f \in DOMAIN r \ {"expires_at", "fetched_at"} |-> r[f]]
\* domain overview: each store call writes the next item that has a target,
\* under that target; a failed one leaves the table as the earlier items made
\* it and ends cacheResult
DomainsInOrder ==
  \A p \in Procs : tool[p] \in DOMAIN_CACHE_TOOLS =>
    /\ Stores(p, "domains") =>
         LET item == Current(p)
             target == Resolved(item, params[p])
             row == DomainStatement(target, ParamLocation(params[p]),
                                    ParamLanguage(params[p]), item, 0)
         IN /\ \E r \in domains' :
                 /\ Untimed(r) = Untimed(row) /\ r.fetched_at = now
                 /\ domains' \ {r} =
                      {s \in domains : ~(/\ s.domain = r.domain
                                         /\ s.location = r.location
                                         /\ s.language = r.language)}
            /\ logged[p] = <<>>
    /\ FailsOn(p, "domains") =>
         /\ UNCHANGED <<domains, search_logs>>
         /\ logged'[p] = <<>> /\ queue'[p] = <<>> /\ stages'[p] = <<>>
         /\ HandsOn(p)
    /\ Stores(p, "search_logs") => Pending(p) = 0 /\ HandsOn(p)

\* C36: for the ranked-keywords tool the keyword records are written before
\* the ranking records and the log entry is appended last; if the ranking
\* write fails the keyword records already written stay, no log entry is
\* appended and the caller still receives the upstream result.  For the
\* domain tool the items are upserted one by one in order, items without a
\* resolvable target are skipped, and a failure on one item leaves the
\* earlier items stored and the later ones unwritten
C36_WriteOrder ==
  []NoLogAfterFailure /\ [][RankedInOrder /\ DomainsInOrder]_vars

\* the ranking write of a ranked-keywords invocation failed: the keyword row
\* it wrote is in the table, no ranking row and no log row is, and the
\* upstream result was returned
C36_Witness ==
  /\ pc[1] = "done" /\ tool[1] = RANKED_KEYWORDS_TOOL
  /\ storeFailed[1] /\ wrote[1] = {"keywords"}
  /\ keywords # {} /\ keyword_rankings = {}
  /\ logged[1] = <<>> /\ search_logs = <<>>
  /\ response[1] = result[1]

\* ------------------------------------------------------------------ C37
\* the records a lookup for the request of p has to find: live, and of a
\* requested keyword under the location and language of the request, whoever
\* wrote them
OfRequest(p) ==
  {r \in keywords : /\ \E i \in DOMAIN Kws(p) : Kws(p)[i] = r.keyword
                    /\ r.location = ParamLocation(params[p])
                    /\ r.language = ParamLanguage(params[p])
                    /\ r.expires_at > now}
\* a lookup that answers finds them all, and calls upstream only when a
\* requested keyword has none
LookupIgnoresSource ==
  \A p \in Procs :
    (pc[p] = "lookup" /\ pc'[p] # "lookup" /\ ~lookupFailed'[p]) =>
      /\ DOMAIN cachedMap'[p] = {r.keyword : r \in OfRequest(p)}
      /\ \A kw \in DOMAIN cachedMap'[p] : cachedMap'[p][kw] \in OfRequest(p)
      /\ (\A i \in DOMAIN Kws(p) : \E r \in OfRequest(p) :
            r.keyword = Kws(p)[i]) => upstreamCalls'[p] = <<>>
\* the source a tool writes keyword records under
SourceOf(p) ==
  IF IsSearchVolume(p) THEN "google_ads"
  ELSE IF tool[p] \in RANKING_CACHE_TOOLS THEN "ranked_keywords"
  ELSE "keyword_suggestions"
\* the statements of the keyword write that is answered in this step
KeywordChunk(p) ==
  IF IsSearchVolume(p) THEN Head(queue[p]) ELSE Head(queue[p]).stmts
KeywordWrite(p) ==
  /\ Sending(p) /\ ~Fails(p)
  /\ IF IsSearchVolume(p) THEN pc[p] = "store"
     ELSE tool[p] \in KEYWORD_CACHE_TOOLS \cup RANKING_CACHE_TOOLS
          /\ Head(queue[p]).table = "keywords"
\* after a keyword write the one record of each key written carries the
\* source of the writing tool, whatever record there was before
WriteTakesOver ==
  \A p \in Procs : KeywordWrite(p) =>
    \A i \in DOMAIN KeywordChunk(p) :
      LET s == KeywordChunk(p)[i]
          same == {r \in keywords' : /\ r.keyword = s.keyword
                                     /\ r.location = s.location
                                     /\ r.language = s.language}
      IN /\ Cardinality(same) = 1
         /\ \A r \in same : r.source = SourceOf(p) /\ r.fetched_at = now

\* C37: the search-volume lookup matches keyword records by keyword,
\* location, language and liveness only, never by source: a live record
\* written by another tool counts as a hit and suppresses the upstream call,
\* and an upsert from any tool overwrites the record and its source
C37_SourceBlind == [][LookupIgnoresSource /\ WriteTakesOver]_vars

\* a search-volume request was served in full from a record that the
\* keyword-suggestions tool had written, without an upstream call
C37_Witness ==
  /\ pc[1] = "done" /\ FullHit(1) /\ upstreamCalls[1] = <<>>
  /\ \E r \in liveAtLookup[1] : r.source = "keyword_suggestions"
  /\ Len(logged[1]) = 1 /\ logged[1][1].cache_hit = 1

\* ------------------------------------------------------------------ C38
\* the invocation has been made and is not over
UnderWay(p) == pc[p] \notin Terminal \cup {"idle"}
Completed(p) ==
  \/ pc[p] = "done" /\ response[p] # NoResult
  \/ pc[p] = "failed" /\ response[p] = [error |-> "upstream"]

\* C38: every invocation of a wrapped handler eventually completes, with a
\* response or with the propagated upstream error, provided each upstream
\* call and each store call eventually returns or fails; a store failure at
\* the lookup, the write or the log never prevents completion
C38_Completes == \A p \in Procs : UnderWay(p) ~> Completed(p)

\* the lookup, the write and the log append of one invocation all failed, and
\* it returned the upstream result
C38_Witness ==
  /\ pc[1] = "done" /\ response[1] = result[1] /\ UpstreamReturned(1)
  /\ lookupFailed[1] /\ storeFailed[1] /\ logFailed[1]

\* ---------------------------------------------------------------- C39
AtDoor == answer.op = "fetch"
Forwarded(res) == Has(res, "forwarded")
Status(res, n) == Has(res, "status") /\ res.status = n
\* /mcp/{token}, /http/{token}, /sse/{token} and /sse/{token}/message
TokenRoute(path) ==
  \/ Len(path) = 2 /\ path[1] \in {"mcp", "http", "sse"} /\ path[2] # ""
  \/ Len(path) = 3 /\ path[1] = "sse" /\ path[2] # "" /\ path[3] = "message"
SecretMatches(env, path) ==
  Truthy(env, "SHARED_SECRET") /\ path[2] = env.SHARED_SECRET
HealthCheck(request) == request.method = "GET" /\ request.path = <<"health">>

\* C39: a request is handed to the agent only on one of the four token
\* routes and only when a non-empty SHARED_SECRET is configured and the token
\* equals it; a token route with a wrong token or without a secret, and a bare
\* /mcp, /http, /sse or /sse/message, is answered 403 and not handed on; every
\* other request except GET /health is answered 404.
C39_AsStated ==
  AtDoor =>
    LET path == answer.request.path
        env == answer.env
        res == answer.response
    IN /\ Forwarded(res) => TokenRoute(path) /\ SecretMatches(env, path)
       /\ \/ TokenRoute(path) /\ ~SecretMatches(env, path)
          \/ path \in BARE_PATHS
          => Status(res, 403) /\ ~Forwarded(res)
       /\ /\ ~TokenRoute(path)
          /\ path \notin BARE_PATHS
          /\ ~HealthCheck(answer.request)
          => Status(res, 404)

\* ---------------------------------------------------------------- C40
Started == answer.op = "init"
HasBinding == Has(answer.env, "SEO_CACHE_DB")
Registered == answer.agent.registered
RegisteredNames == {r.name : r \in Registered}

\* C40: a handler is registered wrapped only when the cache database binding
\* exists; without the binding every module tool is registered unwrapped and
\* no cache tool is registered; and when the connectivity check fails, every
\* module tool and every cache tool is registered all the same.
C40_Registration ==
  Started =>
    /\ \A r \in Registered : r.wrapped => HasBinding
    /\ ~HasBinding =>
         /\ \A n \in answer.moduleTools :
              [name |-> n, wrapped |-> FALSE] \in Registered
         /\ RegisteredNames \cap TOOLS = {}
    /\ answer.check = "failed" =>
         /\ \A n \in answer.moduleTools :
              [name |-> n, wrapped |-> TRUE] \in Registered
         /\ TOOLS \subseteq RegisteredNames

\* the check failed at start-up and the wrapped tools are registered
C40_Witness ==
  /\ Started
  /\ answer.check = "failed"
  /\ answer.moduleTools = ModuleTools
  /\ \A n \in ModuleTools : [name |-> n, wrapped |-> TRUE] \in Registered

============================================================================
